---- MODULE Spec2Model ----
(***************************************************************************)
(* Gotham City seed server: the peer registry (PeerManager), the request   *)
(* dispatcher (GCTYHandler) and the threads that drive them (SeedServer).  *)
(* Time is the steady clock read in whole seconds, as the code's           *)
(* duration_cast<seconds> sees it.                                         *)
(***************************************************************************)
EXTENDS Integers, Sequences, FiniteSets, TLC

(* ------------------------------------------------------------------ *)
(* Bounds of the model                                                 *)
(* ------------------------------------------------------------------ *)
\* PeerManager(max_peers, rate_limit_per_minute): the configured values
max_peers_ == 2
rate_limit_per_minute_ == 2
\* cap on the requests-served counter
MaxServed == 3
\* the messages the dispatcher is handed in one run
MaxMessages == 4
\* the connections accepted in one run of the threads
MaxConcMessages == 3
\* the clients of the reaper's specification act during this many clock steps
MaxClientSteps == 2
\* bytes in transit are changed at most this many times
MaxChanges == 2

(* ------------------------------------------------------------------ *)
(* Program constants                                                   *)
(* ------------------------------------------------------------------ *)
\* std::chrono::steady_clock::time_point{} : the clock's epoch
TimePointZero == 0
\* a running process never reads the epoch itself from the steady clock
StartTime == TimePointZero + 1
\* getPeersForDiscovery / getStats: "seen within last 5 minutes"
ActivityWindow == 300
\* isRateLimited / cleanupRateLimiting: "reset counter every minute"
RateWindow == 60
\* SeedServer::cleanupLoop: cleanupInactivePeers(300)
ReapMaxAge == 300
\* Config::cleanup_interval_seconds
cleanup_interval_seconds == 180

\* gcty_protocol.h
MAGIC_BYTES == 1195594841
PROTOCOL_VERSION == 1
MAX_MESSAGE_SIZE == 1048576
HANDSHAKE_RESPONSE == 2
PEER_REGISTER == 18
PEER_DISCOVERY == 19
PEER_UNREGISTER == 20
PEER_MESSAGE == 16
PING == 240
PONG == 241
ERROR_RESPONSE == 255
\* sizeof of the packed structures
MessageHeaderSize == 16
PeerRegisterRequestSize == 70
PeerDiscoveryRequestSize == 10
\* PeerDiscoveryRequest(): max_peers when the payload is too short to carry it
DefaultMaxPeers == 20
\* handlePeerDiscovery: "Limit max_peers to reasonable value"
DiscoveryCeiling == 50

(* ------------------------------------------------------------------ *)
(* Addresses.  A string is kept as what isValidOnionAddress reads of   *)
(* it: its last six characters (tail), and the number (len) and the    *)
(* set (chars) of the characters before them.                          *)
(* ------------------------------------------------------------------ *)
Base32Chars ==
  {"a","b","c","d","e","f","g","h","i","j","k","l","m","n","o","p","q","r",
   "s","t","u","v","w","x","y","z","2","3","4","5","6","7"}

\* n copies of the character c followed by ".onion"
Onion(c, n) == [chars |-> {c}, len |-> n, tail |-> ".onion"]

\* std::string::length
Length(address) == address.len + Len(address.tail)

AddrA == Onion("a", 56)
AddrB == Onion("b", 56)
AddrC == Onion("c", 16)
\* right length and suffix, a character outside base32
AddrBadChar == Onion("1", 56)
\* right characters and suffix, wrong length
AddrBadLen == Onion("a", 20)
\* "peer_5_1700": the kind of identity TorManager::getPeerAddress makes up
AddrSocket == [chars |-> {"p", "e", "r", "_"}, len |-> 5, tail |-> "5_1700"]

AddrD == Onion("d", 16)
\* std::string(): the empty string
NoAddress == [chars |-> {}, len |-> 0, tail |-> ""]

Addresses == {AddrA, AddrB, AddrC, AddrD, AddrBadChar, AddrBadLen, AddrSocket}

isValidOnionAddress(address) ==
  /\ Length(address) = 22 \/ Length(address) = 62
  /\ address.tail = ".onion"
  /\ address.len >= 1 /\ address.chars \subseteq Base32Chars

ValidAddresses == {a \in Addresses : isValidOnionAddress(a)}

(* ------------------------------------------------------------------ *)
(* Inputs                                                              *)
(* ------------------------------------------------------------------ *)
\* the (address, port, capabilities) triples register is called with
Registrations ==
  {<<AddrA, 9000, 1>>, <<AddrA, 9001, 3>>, <<AddrB, 9001, 3>>,
   <<AddrBadChar, 9000, 1>>}
\* the identities the other calls are made with: two that register and one
\* that never can
Requesters == {AddrA, AddrB, AddrSocket}
\* the triples of a run that only registers: four valid addresses
FirstRegistrations ==
  Registrations \cup {<<AddrC, 9002, 2>>, <<AddrD, 9000, 1>>,
                       <<AddrBadLen, 9000, 1>>, <<AddrSocket, 9000, 1>>}
\* required_capabilities of a discovery
RequiredCaps == {0, 3}
\* max_peers of a discovery
MaxResults == {0, 1, 20}
\* max_age_seconds of a reap: a minute, and the five minutes cleanupLoop passes
MaxAges == {RateWindow, ReapMaxAge}
\* the clock readings at which calls are made: ages of 0, 60, 240, 300 and
\* 360 seconds separate them
Instants ==
  {StartTime, StartTime + RateWindow, StartTime + ActivityWindow,
   StartTime + ActivityWindow + RateWindow}

(* ------------------------------------------------------------------ *)
(* Helpers                                                             *)
(* ------------------------------------------------------------------ *)
RECURSIVE BitAnd(_, _)
\* the C++ operator & on unsigned integers
BitAnd(x, y) ==
  IF x = 0 \/ y = 0 THEN 0
  ELSE (IF x % 2 = 1 /\ y % 2 = 1 THEN 1 ELSE 0) + 2 * BitAnd(x \div 2, y \div 2)

Min(x, y) == IF x <= y THEN x ELSE y

\* every sequence that lists each element of S exactly once
Orderings(S) ==
  {f \in [1..Cardinality(S) -> S] : \A i, j \in 1..Cardinality(S) : i # j => f[i] # f[j]}

\* std::unordered_map::erase
Erase(map, key) == [k \in DOMAIN map \ {key} |-> map[k]]

(* ------------------------------------------------------------------ *)
(* State                                                               *)
(* ------------------------------------------------------------------ *)
VARIABLES
  peers,      \* PeerManager::peers_ : onion address -> PeerInfo
  stats,      \* PeerManager::stats_
  now,        \* std::chrono::steady_clock::now(), in seconds
  last,       \* what the last call made on the registry returned
  attempted,  \* history: the valid addresses register has been called with
  served,     \* history: per requester, its discoveries served at this instant
              \* while it was registered
  asked,      \* history: the discovery the last call answered, if it was one
  received,   \* history: the bytes and the identity the dispatcher was last given
  handler,    \* GCTYHandler's counters
  sent,       \* the frames the last processMessage passed to its response_callback
  pc,         \* where each thread is
  msg,        \* per connection thread, the message it is processing
  raced,      \* per connection thread, whether its unlocked rate check has
              \* overlapped a reaper pass
  stats_mutex_,  \* GCTYHandler::stats_mutex_ : the thread that holds it
  peers_mutex_,  \* PeerManager::peers_mutex_ : the thread that holds it
  crashed,    \* the process has died of a corrupted access
  slept,      \* SeedServer::cleanupLoop : seconds slept since its last pass
  shutdown_requested_,  \* SeedServer::shutdown_requested_
  wire,       \* one message through gotham_protocol::ProtocolUtils: what was
              \* encoded, the bytes in transit and what the receiver parsed
  crowd,      \* a large registry: the number of its records a discovery finds
              \* eligible
  picked,     \* a large registry: the last discovery made on it
  life,       \* the server's threads: where stop(), serverLoop, cleanupLoop and
              \* TorManager::listenLoop are, and running_, listening_,
              \* listen_socket_
  snap,       \* history: the registry and its statistics when the discovery
              \* that is under way took peers_mutex_ (asked is its request)
  conn        \* the last connection TorManager accepted: its socket, the
              \* identity made up for it, what recv returned, the calls made
              \* on the socket, the frames written to it, and history: the
              \* discoveries answered with at least one peer at this instant

\* the registry and its clock
regVars == <<peers, stats, now, last>>
\* the history variables: no code reads them
histVars == <<attempted, served, received>>

\* the dispatcher
dispVars == <<handler, sent>>

\* the threads
threadVars == <<pc, msg, raced, stats_mutex_, peers_mutex_, crashed>>

\* the server's background loop
loopVars == <<slept, shutdown_requested_>>

\* the large registry, the connections through TorManager, and the server's
\* own threads
sideVars == <<crowd, picked, conn, life, snap>>

vars == <<regVars, histVars, asked, dispVars, threadVars, loopVars, wire, sideVars>>

\* PeerInfo::PeerInfo(): what peers_[key] inserts for a missing key
NewPeerInfo(t) ==
  [onion_address |-> NoAddress, port |-> 0, capabilities |-> 0,
   last_seen |-> t, registered_at |-> t, request_count |-> 0]

\* Stats::Stats()
NewStats(t) ==
  [total_peers |-> 0, active_peers |-> 0, requests_served |-> 0,
   registrations_processed |-> 0, server_start_time |-> t]

\* duration_cast<seconds>(now - peer.last_seen).count()
Age(t, peer) == t - peer.last_seen

\* what a call returned: a bool (ok), a vector of PeerInfo (list) or a size_t
\* (count); the fields a call does not return keep these defaults
Returned(ok, list, count) == [ok |-> ok, list |-> list, count |-> count]

NoCall == Returned(FALSE, <<>>, 0)

\* a discovery as it was asked; limited: the requester was rate limited
Request(requesting_peer, max_count, required_capabilities, limited) ==
  [requesting_peer |-> requesting_peer, max_count |-> max_count,
   required_capabilities |-> required_capabilities, limited |-> limited]

NoRequest == Request(NoAddress, 0, 0, FALSE)

(* ------------------------------------------------------------------ *)
(* PeerManager: each operation as a function of the registry (P), the  *)
(* statistics (S) and the clock (t); the result names the new registry *)
(* and statistics and the value returned.                              *)
(* ------------------------------------------------------------------ *)

\* a capacity test that lets the registry grow one past max_peers_
AtCapacityOffByOne(P, onion_address) ==
  Cardinality(DOMAIN P) > max_peers_ /\ onion_address \notin DOMAIN P

\* registerPeer: "At capacity and this is a new peer"
AtCapacity(P, onion_address) ==
  Cardinality(DOMAIN P) >= max_peers_ /\ onion_address \notin DOMAIN P

\* a registration that stamps registered_at on every call
RegisteredInfoRestamped(P, t, onion_address, port, capabilities) ==
  [onion_address |-> onion_address, port |-> port, capabilities |-> capabilities,
   last_seen |-> t, registered_at |-> t,
   request_count |-> IF onion_address \in DOMAIN P THEN P[onion_address].request_count ELSE 0]

\* registerPeer: the record after "Create or update peer info"
RegisteredInfo(P, t, onion_address, port, capabilities) ==
  LET peer == IF onion_address \in DOMAIN P THEN P[onion_address] ELSE NewPeerInfo(t)
      updated == [peer EXCEPT !.onion_address = onion_address,
                              !.port = port,
                              !.capabilities = capabilities,
                              !.last_seen = t]
  IN  IF updated.registered_at = TimePointZero
        THEN [updated EXCEPT !.registered_at = updated.last_seen]
        ELSE updated

\* a registration that never tests the capacity
registerPeerUnbounded(P, S, t, onion_address, port, capabilities) ==
  IF ~isValidOnionAddress(onion_address) THEN [peers |-> P, stats |-> S, ret |-> FALSE]
  ELSE
    LET info == RegisteredInfo(P, t, onion_address, port, capabilities)
        P2 == [k \in DOMAIN P \cup {onion_address} |->
                 IF k = onion_address THEN info ELSE P[k]]
    IN  [peers |-> P2, stats |-> [S EXCEPT !.total_peers = Cardinality(DOMAIN P2)],
         ret |-> TRUE]

registerPeer(P, S, t, onion_address, port, capabilities) ==
  IF ~isValidOnionAddress(onion_address) THEN [peers |-> P, stats |-> S, ret |-> FALSE]
  ELSE IF AtCapacity(P, onion_address) THEN [peers |-> P, stats |-> S, ret |-> FALSE]
  ELSE
    LET fresh == IF onion_address \in DOMAIN P THEN P[onion_address] ELSE NewPeerInfo(t)
        info == RegisteredInfo(P, t, onion_address, port, capabilities)
        P2 == [k \in DOMAIN P \cup {onion_address} |->
                 IF k = onion_address THEN info ELSE P[k]]
        processed == IF fresh.registered_at = TimePointZero
                       THEN S.registrations_processed + 1
                       ELSE S.registrations_processed
    IN  [peers |-> P2,
         stats |-> [S EXCEPT !.registrations_processed = processed,
                             !.total_peers = Cardinality(DOMAIN P2)],
         ret |-> TRUE]

unregisterPeer(P, S, onion_address) ==
  IF onion_address \in DOMAIN P
    THEN LET P2 == Erase(P, onion_address)
         IN  [peers |-> P2,
              stats |-> [S EXCEPT !.total_peers = Cardinality(DOMAIN P2)],
              ret |-> TRUE]
    ELSE [peers |-> P, stats |-> S, ret |-> FALSE]

\* isRateLimited: the registry after the call and the value returned
\* a rate check that counts the request it refuses
isRateLimitedCounting(P, t, onion_address) ==
  IF onion_address \notin DOMAIN P THEN [peers |-> P, ret |-> FALSE]
  ELSE IF Age(t, P[onion_address]) >= RateWindow
    THEN [peers |-> [P EXCEPT ![onion_address].request_count = 0], ret |-> FALSE]
  ELSE [peers |-> [P EXCEPT ![onion_address].request_count = @ + 1],
        ret |-> P[onion_address].request_count >= rate_limit_per_minute_]

\* a rate check whose window is still open at exactly RateWindow seconds
isRateLimitedLateReset(P, t, onion_address) ==
  IF onion_address \notin DOMAIN P THEN [peers |-> P, ret |-> FALSE]
  ELSE IF Age(t, P[onion_address]) > RateWindow
    THEN [peers |-> [P EXCEPT ![onion_address].request_count = 0], ret |-> FALSE]
  ELSE [peers |-> P,
        ret |-> P[onion_address].request_count >= rate_limit_per_minute_]

isRateLimited(P, t, onion_address) ==
  IF onion_address \notin DOMAIN P THEN [peers |-> P, ret |-> FALSE]
  ELSE IF Age(t, P[onion_address]) >= RateWindow
    THEN [peers |-> [P EXCEPT ![onion_address].request_count = 0], ret |-> FALSE]
  ELSE [peers |-> P,
        ret |-> P[onion_address].request_count >= rate_limit_per_minute_]

\* an eligibility test that does not skip the requester
EligibleWithSelf(peer, address, t, requesting_peer, required_capabilities) ==
  /\ ~(Age(t, peer) > ActivityWindow)
  /\ ~(required_capabilities # 0
       /\ BitAnd(peer.capabilities, required_capabilities) # required_capabilities)

\* an eligibility test that does not skip stale records
EligibleAnyAge(peer, address, t, requesting_peer, required_capabilities) ==
  /\ address # requesting_peer
  /\ ~(required_capabilities # 0
       /\ BitAnd(peer.capabilities, required_capabilities) # required_capabilities)

\* an eligibility test satisfied by any one of the required bits
EligibleAnyBit(peer, address, t, requesting_peer, required_capabilities) ==
  /\ address # requesting_peer
  /\ ~(Age(t, peer) > ActivityWindow)
  /\ ~(required_capabilities # 0
       /\ BitAnd(peer.capabilities, required_capabilities) = 0)

\* getPeersForDiscovery: the test of one record in "Collect eligible peers"
Eligible(peer, address, t, requesting_peer, required_capabilities) ==
  /\ address # requesting_peer
  /\ ~(Age(t, peer) > ActivityWindow)
  /\ ~(required_capabilities # 0
       /\ BitAnd(peer.capabilities, required_capabilities) # required_capabilities)

\* a subset that is shuffled but never cut to max_count
getRandomSubsetUncut(list, max_count) ==
  {[i \in 1..Len(list) |-> list[perm[i]]] : perm \in Orderings(1..Len(list))}

\* getRandomSubset: every vector the shuffle and the resize can leave
getRandomSubset(list, max_count) ==
  IF Len(list) <= max_count THEN {list}
  ELSE {[i \in 1..max_count |-> list[perm[i]]] : perm \in Orderings(1..Len(list))}

\* getRandomSubset: the size of the vector it returns for a vector of count
\* elements
SubsetSize(count, max_count) ==
  IF count <= max_count THEN count ELSE max_count

\* a discovery that counts as served the request it refuses
getPeersForDiscoveryCountingRefused(P, S, t, requesting_peer, max_count, required_capabilities) ==
  LET limited == isRateLimited(P, t, requesting_peer)
      P1 == limited.peers
      P2 == IF requesting_peer \in DOMAIN P1
              THEN [P1 EXCEPT ![requesting_peer].request_count = @ + 1]
              ELSE P1
      eligible == {a \in DOMAIN P2 :
                     Eligible(P2[a], a, t, requesting_peer, required_capabilities)}
      S2 == [S EXCEPT !.active_peers = Cardinality(eligible),
                      !.requests_served = @ + 1]
  IN  IF limited.ret
        THEN {[peers |-> P1, stats |-> [S EXCEPT !.requests_served = @ + 1], ret |-> <<>>]}
        ELSE {[peers |-> P2, stats |-> S2, ret |-> r] :
                r \in UNION {getRandomSubset([i \in DOMAIN order |-> P2[order[i]]], max_count) :
                               order \in Orderings(eligible)}}

\* a discovery that counts the request before it asks the limiter, so that a
\* refused request is counted too
getPeersForDiscoveryCountingFirst(P, S, t, requesting_peer, max_count, required_capabilities) ==
  LET limited == isRateLimited(P, t, requesting_peer)
      P1 == limited.peers
      P2 == IF requesting_peer \in DOMAIN P1
              THEN [P1 EXCEPT ![requesting_peer].request_count = @ + 1]
              ELSE P1
      eligible == {a \in DOMAIN P2 :
                     Eligible(P2[a], a, t, requesting_peer, required_capabilities)}
      S2 == [S EXCEPT !.active_peers = Cardinality(eligible),
                      !.requests_served = @ + 1]
  IN  IF limited.ret
        THEN {[peers |-> P2, stats |-> S, ret |-> <<>>]}
        ELSE {[peers |-> P2, stats |-> S2, ret |-> r] :
                r \in UNION {getRandomSubset([i \in DOMAIN order |-> P2[order[i]]], max_count) :
                               order \in Orderings(eligible)}}

\* getPeersForDiscovery: every (registry, statistics, returned vector) it can
\* end with; the map's iteration order and the shuffle are free
getPeersForDiscovery(P, S, t, requesting_peer, max_count, required_capabilities) ==
  LET limited == isRateLimited(P, t, requesting_peer)
      P1 == limited.peers
      P2 == IF requesting_peer \in DOMAIN P1
              THEN [P1 EXCEPT ![requesting_peer].request_count = @ + 1]
              ELSE P1
      eligible == {a \in DOMAIN P2 :
                     Eligible(P2[a], a, t, requesting_peer, required_capabilities)}
      S2 == [S EXCEPT !.active_peers = Cardinality(eligible),
                      !.requests_served = @ + 1]
  IN  IF limited.ret
        THEN {[peers |-> P1, stats |-> S, ret |-> <<>>]}
        ELSE {[peers |-> P2, stats |-> S2, ret |-> r] :
                r \in UNION {getRandomSubset([i \in DOMAIN order |-> P2[order[i]]], max_count) :
                               order \in Orderings(eligible)}}

\* a touch that stamps the time of registration instead of last_seen
updatePeerActivityWrongField(P, t, onion_address) ==
  IF onion_address \in DOMAIN P
    THEN [P EXCEPT ![onion_address].registered_at = t]
    ELSE P

\* a touch that finds its record with operator[], which inserts a
\* default-constructed PeerInfo for an address that is absent
updatePeerActivityInserting(P, t, onion_address) ==
  IF onion_address \in DOMAIN P
    THEN [P EXCEPT ![onion_address].last_seen = t]
    ELSE [a \in DOMAIN P \cup {onion_address} |->
            IF a = onion_address
              THEN NewPeerInfo(t)
              ELSE P[a]]

updatePeerActivity(P, t, onion_address) ==
  IF onion_address \in DOMAIN P
    THEN [P EXCEPT ![onion_address].last_seen = t]
    ELSE P

\* cleanupRateLimiting
cleanupRateLimiting(P, t) ==
  [a \in DOMAIN P |->
     IF Age(t, P[a]) >= RateWindow THEN [P[a] EXCEPT !.request_count = 0] ELSE P[a]]

\* a reap that starts the count of the served requests again
cleanupInactivePeersResetting(P, S, t, max_age_seconds) ==
  LET kept == {a \in DOMAIN P : ~(Age(t, P[a]) > max_age_seconds)}
      P2 == cleanupRateLimiting([a \in kept |-> P[a]], t)
  IN  [peers |-> P2,
       stats |-> [S EXCEPT !.total_peers = Cardinality(DOMAIN P2),
                           !.requests_served = 0],
       ret |-> Cardinality(DOMAIN P) - Cardinality(kept)]

\* a reap that also removes the records exactly max_age_seconds old
cleanupInactivePeersInclusive(P, S, t, max_age_seconds) ==
  LET kept == {a \in DOMAIN P : ~(Age(t, P[a]) >= max_age_seconds)}
      P2 == cleanupRateLimiting([a \in kept |-> P[a]], t)
  IN  [peers |-> P2,
       stats |-> [S EXCEPT !.total_peers = Cardinality(DOMAIN P2)],
       ret |-> Cardinality(DOMAIN P) - Cardinality(kept)]

cleanupInactivePeers(P, S, t, max_age_seconds) ==
  LET kept == {a \in DOMAIN P : ~(Age(t, P[a]) > max_age_seconds)}
      P2 == cleanupRateLimiting([a \in kept |-> P[a]], t)
  IN  [peers |-> P2,
       stats |-> [S EXCEPT !.total_peers = Cardinality(DOMAIN P2)],
       ret |-> Cardinality(DOMAIN P) - Cardinality(kept)]

\* PeerManager::getStats: the snapshot returned
getStats(P, S, t) ==
  [S EXCEPT !.total_peers = Cardinality(DOMAIN P),
            !.active_peers = Cardinality({a \in DOMAIN P : Age(t, P[a]) <= ActivityWindow})]

(* ------------------------------------------------------------------ *)
(* Frames. A payload is the sequence of the fields it carries, each    *)
(* with its width in bytes and the value its bytes encode (network     *)
(* byte order on the wire). A frame is the header's fields, the        *)
(* payload and the number of bytes supplied.                            *)
(* ------------------------------------------------------------------ *)
Field(width, value) == [width |-> width, value |-> value]

RECURSIVE PayloadSize(_)
\* std::vector<uint8_t>::size of a payload
PayloadSize(payload) ==
  IF payload = <<>> THEN 0 ELSE Head(payload).width + PayloadSize(Tail(payload))

\* ProtocolUtils::createMessage
createMessage(type, payload) ==
  [size |-> MessageHeaderSize + PayloadSize(payload),
   magic |-> MAGIC_BYTES, version |-> PROTOCOL_VERSION, type |-> type, flags |-> 0,
   payload_length |-> PayloadSize(payload), payload |-> payload]

\* ProtocolUtils::parseMessage: whether the frame parses, and what it yields
parseMessage(data) ==
  LET ok == /\ data.size >= MessageHeaderSize
            /\ data.magic = MAGIC_BYTES
            /\ data.version = PROTOCOL_VERSION
            /\ data.flags = 0
            /\ data.payload_length <= MAX_MESSAGE_SIZE
            /\ data.size = MessageHeaderSize + data.payload_length
  IN  [ok |-> ok,
       type |-> IF ok THEN data.type ELSE 0,
       payload |-> IF ok THEN data.payload ELSE <<>>]

\* the payloads of the request structures
PeerRegisterRequest(onion_address, port, capabilities) ==
  <<Field(2, port), Field(4, capabilities), Field(64, onion_address)>>

PeerDiscoveryRequest(max_peers, required_capabilities) ==
  <<Field(2, max_peers), Field(4, required_capabilities), Field(4, 0)>>

\* sendErrorResponse: the ErrorResponse structure in an ERROR_RESPONSE frame
ErrorFrame(error_code, error_message) ==
  createMessage(ERROR_RESPONSE,
                <<Field(1, error_code), Field(3, 0), Field(128, error_message)>>)

\* handlePeerDiscovery: PeerDiscoveryResponse, then the three fields of one
\* PeerEntry for each peer
DiscoveryResponsePayload(list) ==
  <<Field(2, Len(list)), Field(2, 0)>>
  \o [k \in 1..(3 * Len(list)) |->
        LET peer == list[(k + 2) \div 3]
        IN  IF k % 3 = 1 THEN Field(2, peer.port)
            ELSE IF k % 3 = 2 THEN Field(4, peer.capabilities)
            ELSE Field(64, peer.onion_address)]

\* the frames the dispatcher is handed: one request of each type, a type the
\* server does not support, and a frame whose magic differs in one bit
Frames ==
  {createMessage(PEER_REGISTER, PeerRegisterRequest(AddrA, 9000, 1)),
   createMessage(PEER_DISCOVERY, PeerDiscoveryRequest(20, 0)),
   createMessage(PEER_UNREGISTER, <<>>),
   createMessage(PING, <<Field(4, 7)>>),
   createMessage(1, <<>>),
   [createMessage(PING, <<>>) EXCEPT !.magic = MAGIC_BYTES - 1]}

(* ------------------------------------------------------------------ *)
(* GCTYHandler. A handler's result is the registry and statistics it   *)
(* leaves, the frames it sent and the value it returned.               *)
(* ------------------------------------------------------------------ *)
NewHandler ==
  [messages_processed_ |-> 0, invalid_messages_ |-> 0, rate_limited_requests_ |-> 0,
   peer_registrations_ |-> 0, peer_discoveries_ |-> 0, ping_requests_ |-> 0]

Handled(P, S, frames, ret) == [peers |-> P, stats |-> S, sent |-> frames, ret |-> ret]

\* a register handler that leaves the validation of the address to the registry
handlePeerRegisterUnvalidated(P, S, t, payload) ==
  IF PayloadSize(payload) # PeerRegisterRequestSize
    THEN Handled(P, S, <<ErrorFrame(4, "Invalid peer register payload size")>>, FALSE)
  ELSE
    LET r == registerPeer(P, S, t, payload[3].value, payload[1].value, payload[2].value)
    IN  IF r.ret
          THEN Handled(r.peers, r.stats, <<createMessage(HANDSHAKE_RESPONSE, <<>>)>>, TRUE)
          ELSE Handled(r.peers, r.stats,
                       <<ErrorFrame(6, "Failed to register peer (capacity reached)")>>, FALSE)

handlePeerRegister(P, S, t, payload) ==
  IF PayloadSize(payload) # PeerRegisterRequestSize
    THEN Handled(P, S, <<ErrorFrame(4, "Invalid peer register payload size")>>, FALSE)
  ELSE IF ~isValidOnionAddress(payload[3].value)
    THEN Handled(P, S, <<ErrorFrame(5, "Invalid onion address format")>>, FALSE)
  ELSE
    LET r == registerPeer(P, S, t, payload[3].value, payload[1].value, payload[2].value)
    IN  IF r.ret
          THEN Handled(r.peers, r.stats, <<createMessage(HANDSHAKE_RESPONSE, <<>>)>>, TRUE)
          ELSE Handled(r.peers, r.stats,
                       <<ErrorFrame(6, "Failed to register peer (capacity reached)")>>, FALSE)

\* a handler that passes the requested max_peers on as it is
LimitMaxPeersNever(max_peers) == max_peers

\* handlePeerDiscovery: "Limit max_peers to reasonable value"
LimitMaxPeers(max_peers) ==
  IF max_peers > DiscoveryCeiling THEN DiscoveryCeiling ELSE max_peers

\* a discovery handler that reads each field its payload wholly holds
handlePeerDiscoveryPerField(P, S, t, payload, peer_address) ==
  LET max_peers == IF PayloadSize(payload) >= 2 THEN payload[1].value ELSE DefaultMaxPeers
      required_capabilities == IF PayloadSize(payload) >= 6 THEN payload[2].value ELSE 0
      clamped == LimitMaxPeers(max_peers)
  IN  {Handled(r.peers, r.stats,
               <<createMessage(HANDSHAKE_RESPONSE, DiscoveryResponsePayload(r.ret))>>, TRUE) :
         r \in getPeersForDiscovery(P, S, t, peer_address, clamped, required_capabilities)}

\* every outcome of handlePeerDiscovery
handlePeerDiscovery(P, S, t, payload, peer_address) ==
  LET whole == PayloadSize(payload) >= PeerDiscoveryRequestSize
      max_peers == IF whole THEN payload[1].value ELSE DefaultMaxPeers
      required_capabilities == IF whole THEN payload[2].value ELSE 0
      clamped == LimitMaxPeers(max_peers)
  IN  {Handled(r.peers, r.stats,
               <<createMessage(HANDSHAKE_RESPONSE, DiscoveryResponsePayload(r.ret))>>, TRUE) :
         r \in getPeersForDiscovery(P, S, t, peer_address, clamped, required_capabilities)}

\* an unregister handler that removes the peer its payload names, when it
\* names one
handlePeerUnregisterByPayload(P, S, payload, peer_address) ==
  LET named == IF PayloadSize(payload) = PeerRegisterRequestSize
                 THEN payload[3].value ELSE peer_address
      r == unregisterPeer(P, S, named)
  IN  IF r.ret
        THEN Handled(r.peers, r.stats, <<createMessage(HANDSHAKE_RESPONSE, <<>>)>>, TRUE)
        ELSE Handled(r.peers, r.stats,
                     <<ErrorFrame(7, "Peer not found for unregistration")>>, FALSE)

\* the payload is not read
handlePeerUnregister(P, S, payload, peer_address) ==
  LET r == unregisterPeer(P, S, peer_address)
  IN  IF r.ret
        THEN Handled(r.peers, r.stats, <<createMessage(HANDSHAKE_RESPONSE, <<>>)>>, TRUE)
        ELSE Handled(r.peers, r.stats,
                     <<ErrorFrame(7, "Peer not found for unregistration")>>, FALSE)

\* a ping handler that answers with a PONG that carries nothing
handlePingEmpty(P, S, payload) ==
  Handled(P, S, <<createMessage(PONG, <<>>)>>, TRUE)

\* a ping handler that reports success without answering
handlePingSilent(P, S, payload) ==
  Handled(P, S, <<>>, TRUE)

handlePing(P, S, payload) ==
  Handled(P, S, <<createMessage(PONG, payload)>>, TRUE)

\* a dispatcher that counts a request under its type whether or not its
\* handler succeeded, and a failed one as invalid as well
DispatchCountingFailedTwice(P, S, H, t, type, payload, peer_address) ==
  LET outcomes ==
        IF type = PEER_REGISTER THEN {handlePeerRegister(P, S, t, payload)}
        ELSE IF type = PEER_DISCOVERY THEN handlePeerDiscovery(P, S, t, payload, peer_address)
        ELSE IF type = PEER_UNREGISTER THEN {handlePeerUnregister(P, S, payload, peer_address)}
        ELSE IF type = PING THEN {handlePing(P, S, payload)}
        ELSE {Handled(P, S, <<ErrorFrame(3, "Unsupported message type")>>, FALSE)}
      Typed ==
        IF type = PEER_REGISTER THEN [H EXCEPT !.peer_registrations_ = @ + 1]
        ELSE IF type = PEER_DISCOVERY THEN [H EXCEPT !.peer_discoveries_ = @ + 1]
        ELSE IF type = PING THEN [H EXCEPT !.ping_requests_ = @ + 1]
        ELSE H
      Counted(handled) ==
        IF ~handled THEN [Typed EXCEPT !.invalid_messages_ = @ + 1] ELSE Typed
  IN  {[peers |-> o.peers, stats |-> o.stats, handler |-> Counted(o.ret),
        sent |-> o.sent, ret |-> o.ret] : o \in outcomes}

\* processMessage from "Dispatch based on message type" to its return: every
\* outcome, given the registry after the touch
Dispatch(P, S, H, t, type, payload, peer_address) ==
  LET outcomes ==
        IF type = PEER_REGISTER THEN {handlePeerRegister(P, S, t, payload)}
        ELSE IF type = PEER_DISCOVERY THEN handlePeerDiscovery(P, S, t, payload, peer_address)
        ELSE IF type = PEER_UNREGISTER THEN {handlePeerUnregister(P, S, payload, peer_address)}
        ELSE IF type = PING THEN {handlePing(P, S, payload)}
        ELSE {Handled(P, S, <<ErrorFrame(3, "Unsupported message type")>>, FALSE)}
      Counted(handled) ==
        IF ~handled THEN [H EXCEPT !.invalid_messages_ = @ + 1]
        ELSE IF type = PEER_REGISTER THEN [H EXCEPT !.peer_registrations_ = @ + 1]
        ELSE IF type = PEER_DISCOVERY THEN [H EXCEPT !.peer_discoveries_ = @ + 1]
        ELSE IF type = PING THEN [H EXCEPT !.ping_requests_ = @ + 1]
        ELSE H
  IN  {[peers |-> o.peers, stats |-> o.stats, handler |-> Counted(o.ret),
        sent |-> o.sent, ret |-> o.ret] : o \in outcomes}

\* a dispatcher whose rate check lets discoveries through to their handler
processMessageDiscoveryExempt(P, S, H, t, data, peer_address) ==
  LET H1 == [H EXCEPT !.messages_processed_ = @ + 1]
      parsed == parseMessage(data)
      limited == isRateLimited(P, t, peer_address)
  IN  IF ~parsed.ok
        THEN {[peers |-> P, stats |-> S,
               handler |-> [H1 EXCEPT !.invalid_messages_ = @ + 1],
               sent |-> <<ErrorFrame(1, "Invalid GCTY message format")>>, ret |-> FALSE]}
      ELSE IF limited.ret /\ parsed.type # PEER_DISCOVERY
        THEN {[peers |-> limited.peers, stats |-> S,
               handler |-> [H1 EXCEPT !.rate_limited_requests_ = @ + 1],
               sent |-> <<ErrorFrame(2, "Rate limit exceeded")>>, ret |-> FALSE]}
      ELSE Dispatch(updatePeerActivity(limited.peers, t, peer_address), S, H1, t,
                    parsed.type, parsed.payload, peer_address)

\* processMessage when nothing else runs during it: every outcome
processMessage(P, S, H, t, data, peer_address) ==
  LET H1 == [H EXCEPT !.messages_processed_ = @ + 1]
      parsed == parseMessage(data)
      limited == isRateLimited(P, t, peer_address)
  IN  IF ~parsed.ok
        THEN {[peers |-> P, stats |-> S,
               handler |-> [H1 EXCEPT !.invalid_messages_ = @ + 1],
               sent |-> <<ErrorFrame(1, "Invalid GCTY message format")>>, ret |-> FALSE]}
      ELSE IF limited.ret
        THEN {[peers |-> limited.peers, stats |-> S,
               handler |-> [H1 EXCEPT !.rate_limited_requests_ = @ + 1],
               sent |-> <<ErrorFrame(2, "Rate limit exceeded")>>, ret |-> FALSE]}
      ELSE Dispatch(updatePeerActivity(limited.peers, t, peer_address), S, H1, t,
                    parsed.type, parsed.payload, peer_address)

(* ------------------------------------------------------------------ *)
(* The registry called directly, one whole call per step: every call   *)
(* takes peers_mutex_ on entry and holds it until it returns.          *)
(* ------------------------------------------------------------------ *)
\* the threads TorManager::listenLoop detaches for two connections, the
\* thread that runs SeedServer::cleanupLoop, and the main thread, which prints
\* SeedServer::getStats
Handlers == {"connection1", "connection2"}
Reaper == "cleanup"
Main == "main"
Threads == Handlers \cup {Reaper, Main}
NoThread == "none"

(* ------------------------------------------------------------------ *)
(* gotham_protocol::ProtocolUtils, byte by byte. A std::vector<uint8_t> *)
(* is a sequence of runs of equal bytes, so that a payload of          *)
(* MAX_MESSAGE_SIZE bytes can be written down.                         *)
(* ------------------------------------------------------------------ *)
Run(byte, count) == [byte |-> byte, count |-> count]

RECURSIVE Size(_)
\* std::vector<uint8_t>::size
Size(v) == IF v = <<>> THEN 0 ELSE Head(v).count + Size(Tail(v))

RECURSIVE ByteAt(_, _)
\* v[i], for i < v.size()
ByteAt(v, i) ==
  IF i < Head(v).count THEN Head(v).byte ELSE ByteAt(Tail(v), i - Head(v).count)

RECURSIVE From(_, _)
\* the bytes from v.begin() + n to v.end()
From(v, n) ==
  IF n = 0 \/ v = <<>> THEN v
  ELSE IF Head(v).count <= n THEN From(Tail(v), n - Head(v).count)
  ELSE <<Run(Head(v).byte, Head(v).count - n)>> \o Tail(v)

RECURSIVE UpTo(_, _)
\* the first n bytes of v
UpTo(v, n) ==
  IF n = 0 \/ v = <<>> THEN <<>>
  ELSE IF Head(v).count <= n THEN <<Head(v)>> \o UpTo(Tail(v), n - Head(v).count)
  ELSE <<Run(Head(v).byte, n)>>

RECURSIVE Norm(_)
\* the same bytes with adjacent runs of one byte merged
Norm(v) ==
  IF Len(v) < 2 THEN v
  ELSE LET rest == Norm(Tail(v))
       IN  IF Head(v).byte = Head(rest).byte
             THEN <<Run(Head(v).byte, Head(v).count + Head(rest).count)>> \o Tail(rest)
             ELSE <<Head(v)>> \o rest

\* operator== of two vectors
SameBytes(u, v) == Norm(u) = Norm(v)

\* single bytes as a vector
Bytes(seq) == [i \in DOMAIN seq |-> Run(seq[i], 1)]

RECURSIVE Value(_)
\* the number a sequence of bytes spells, most significant byte first
Value(be) ==
  IF be = <<>> THEN 0 ELSE Value(SubSeq(be, 1, Len(be) - 1)) * 256 + be[Len(be)]

Reverse(seq) == [i \in DOMAIN seq |-> seq[Len(seq) + 1 - i]]

\* the bytes an unsigned integer of the given width occupies in the memory of
\* a little-endian or big-endian host
Store(width, value, little_endian) ==
  LET be == [i \in 1..width |-> (value \div (256 ^ (width - i))) % 256]
  IN  IF little_endian THEN Reverse(be) ELSE be

\* the unsigned integer that bytes of memory hold
Load(bytes, little_endian) ==
  Value(IF little_endian THEN Reverse(bytes) ELSE bytes)

\* htonl, htons, ntohl, ntohs: the value whose bytes in memory are the
\* argument's bytes in network order
hton(width, value, little_endian) == Load(Store(width, value, FALSE), little_endian)

\* static_cast<uint32_t> of a size_t: the low 32 bits, taken 16 bits at a
\* time
UInt32(n) == (((n \div 65536) % 65536) * 65536) + (n % 65536)

\* MessageHeader::MessageHeader()
NewMessageHeader ==
  [magic |-> MAGIC_BYTES, version |-> PROTOCOL_VERSION, reserved |-> 0,
   type |-> PEER_MESSAGE, flags |-> 0, padding |-> 0, payload_length |-> 0]

\* the sizeof(MessageHeader) bytes of a packed MessageHeader in memory
Memory(header, little_endian) ==
  Store(4, header.magic, little_endian) \o Store(2, header.version, little_endian)
  \o Store(2, header.reserved, little_endian) \o <<header.type, header.flags>>
  \o Store(2, header.padding, little_endian)
  \o Store(4, header.payload_length, little_endian)

\* the MessageHeader that sizeof(MessageHeader) bytes of memory are
FromMemory(mem, little_endian) ==
  [magic |-> Load(SubSeq(mem, 1, 4), little_endian),
   version |-> Load(SubSeq(mem, 5, 6), little_endian),
   reserved |-> Load(SubSeq(mem, 7, 8), little_endian),
   type |-> mem[9], flags |-> mem[10],
   padding |-> Load(SubSeq(mem, 11, 12), little_endian),
   payload_length |-> Load(SubSeq(mem, 13, 16), little_endian)]

\* a conversion that leaves payload_length in host order
hostToNetworkPartial(header, little_endian) ==
  [header EXCEPT !.magic = hton(4, @, little_endian),
                 !.version = hton(2, @, little_endian),
                 !.reserved = hton(2, @, little_endian)]

\* type, flags and padding are not converted
hostToNetwork(header, little_endian) ==
  [header EXCEPT !.magic = hton(4, @, little_endian),
                 !.version = hton(2, @, little_endian),
                 !.reserved = hton(2, @, little_endian),
                 !.payload_length = hton(4, @, little_endian)]

networkToHost(header, little_endian) ==
  [header EXCEPT !.magic = hton(4, @, little_endian),
                 !.version = hton(2, @, little_endian),
                 !.reserved = hton(2, @, little_endian),
                 !.payload_length = hton(4, @, little_endian)]

validateHeader(header) ==
  /\ header.magic = MAGIC_BYTES
  /\ header.version = PROTOCOL_VERSION
  /\ ~(header.reserved # 0 \/ header.flags # 0 \/ header.padding # 0)
  /\ ~(header.payload_length > MAX_MESSAGE_SIZE)

\* gotham_protocol::ProtocolUtils::createMessage on a host of the given
\* byte order
gotham_createMessage(type, payload, little_endian) ==
  LET header == [NewMessageHeader EXCEPT !.type = type,
                                         !.payload_length = UInt32(Size(payload))]
  IN  Bytes(Memory(hostToNetwork(header, little_endian), little_endian)) \o payload

\* what a byte read past the end of a buffer may hold
Stray == {0, 127}

\* memcpy of n bytes out of data.data(): every content the destination can
\* get, bytes past data.size() being whatever the memory there holds
memcpy(data, n) ==
  IF n <= Size(data)
    THEN {[i \in 1..n |-> ByteAt(data, i - 1)]}
    ELSE {[i \in 1..n |-> IF i <= Size(data) THEN ByteAt(data, i - 1) ELSE stray] :
            stray \in Stray}

\* a minimum-size check that lets a buffer one byte short through
TooShortOffByOne(data) == Size(data) < MessageHeaderSize - 1

\* parseMessage's "Check minimum size"
TooShort(data) == Size(data) < MessageHeaderSize

\* a size check that only refuses truncated messages
SizeMismatchTruncatedOnly(data, header) ==
  Size(data) < MessageHeaderSize + header.payload_length

\* parseMessage's "Check total message size"
SizeMismatch(data, header) ==
  Size(data) # MessageHeaderSize + header.payload_length

\* the outcome of a parse: the value returned, the header and payload
\* arguments as the call leaves them, and how many bytes of data it read
Parsed(ok, header, payload, read) ==
  [ok |-> ok, header |-> header, payload |-> payload, read |-> read]

\* gotham_protocol::ProtocolUtils::parseMessage on a host of the given byte
\* order, with the header and payload arguments as the caller passes them:
\* every outcome
gotham_parseMessage(data, header_in, payload_in, little_endian) ==
  IF TooShort(data) THEN {Parsed(FALSE, header_in, payload_in, 0)}
  ELSE {LET header == networkToHost(FromMemory(mem, little_endian), little_endian)
        IN  IF ~validateHeader(header)
              THEN Parsed(FALSE, header, payload_in, MessageHeaderSize)
            ELSE IF SizeMismatch(data, header)
              THEN Parsed(FALSE, header, payload_in, MessageHeaderSize)
            ELSE Parsed(TRUE, header,
                        IF header.payload_length > 0
                          THEN From(data, MessageHeaderSize) ELSE <<>>,
                        IF header.payload_length > 0
                          THEN Size(data) ELSE MessageHeaderSize) :
          mem \in memcpy(data, MessageHeaderSize)}

\* nothing encoded, nothing in transit, nothing parsed
NoWire ==
  [type |-> 0, payload |-> <<>>, data |-> <<>>, intact |-> FALSE, changes |-> 0,
   given |-> <<>>, parsed |-> FALSE,
   out |-> Parsed(FALSE, NewMessageHeader, <<>>, 0)]

NoMessage == [data |-> createMessage(0, <<>>), peer_address |-> NoAddress]

NoneServed == [a \in Requesters |-> 0]

\* no discovery made yet
NoPick == [via |-> "none", max_peers |-> 0, returned |-> 0]

\* no connection accepted yet
NoConnection ==
  [socket_fd |-> -1, peer_address |-> NoAddress, received |-> -1,
   calls |-> <<>>, written |-> <<>>, answered |-> 0]

\* the server after start() has returned true: the loops run, the listener
\* is in accept, nobody has called stop()
Started ==
  [running_ |-> TRUE, stop |-> "idle",
   server_thread_ |-> "while", cleanup_thread_ |-> "while",
   listen_thread_ |-> "while", listening_ |-> TRUE, listen_socket_ |-> 3,
   woken |-> FALSE]

\* no discovery under way
NoSnapshot == [peers |-> << >>, stats |-> NewStats(StartTime)]

Init ==
  /\ peers = << >>
  /\ stats = NewStats(StartTime)
  /\ now = StartTime
  /\ last = NoCall
  /\ attempted = {}
  /\ served = NoneServed
  /\ asked = NoRequest
  /\ received = NoMessage
  /\ handler = NewHandler
  /\ sent = <<>>
  /\ pc = [th \in Threads |-> IF th = Reaper THEN "sleep" ELSE "idle"]
  /\ msg = [h \in Handlers |-> NoMessage]
  /\ raced = [h \in Handlers |-> FALSE]
  /\ stats_mutex_ = NoThread
  /\ peers_mutex_ = NoThread
  /\ crashed = FALSE
  /\ slept = 0
  /\ shutdown_requested_ = FALSE
  /\ wire = NoWire
  /\ crowd = 0
  /\ picked = NoPick
  /\ conn = NoConnection
  /\ life = Started
  /\ snap = NoSnapshot

RegisterCall(onion_address, port, capabilities) ==
  LET r == registerPeer(peers, stats, now, onion_address, port, capabilities)
  IN  /\ peers' = r.peers
      /\ stats' = r.stats
      /\ last' = Returned(r.ret, <<>>, 0)
      /\ UNCHANGED now

UnregisterCall(onion_address) ==
  LET r == unregisterPeer(peers, stats, onion_address)
  IN  /\ peers' = r.peers
      /\ stats' = r.stats
      /\ last' = Returned(r.ret, <<>>, 0)
      /\ UNCHANGED now

DiscoverCall(requesting_peer, max_count, required_capabilities) ==
  \E r \in getPeersForDiscovery(peers, stats, now, requesting_peer, max_count,
                                required_capabilities) :
    /\ peers' = r.peers
    /\ stats' = r.stats
    /\ last' = Returned(FALSE, r.ret, 0)
    /\ UNCHANGED now

TouchCall(onion_address) ==
  /\ peers' = updatePeerActivity(peers, now, onion_address)
  /\ last' = NoCall
  /\ UNCHANGED <<stats, now>>

ReapCall(max_age_seconds) ==
  LET r == cleanupInactivePeers(peers, stats, now, max_age_seconds)
  IN  /\ peers' = r.peers
      /\ stats' = r.stats
      /\ last' = Returned(FALSE, <<>>, r.ret)
      /\ UNCHANGED now

RateCheckCall(onion_address) ==
  LET r == isRateLimited(peers, now, onion_address)
  IN  /\ peers' = r.peers
      /\ last' = Returned(r.ret, <<>>, 0)
      /\ UNCHANGED <<stats, now>>

StatsCall ==
  /\ last' = Returned(FALSE, <<>>, getStats(peers, stats, now).active_peers)
  /\ UNCHANGED <<peers, stats, now>>

\* the steady clock advances to a later instant
Advance ==
  \E t \in Instants :
    /\ t > now
    /\ now' = t
    /\ UNCHANGED <<peers, stats, last>>

RegisterPeer ==
  /\ \E reg \in Registrations : RegisterCall(reg[1], reg[2], reg[3])
  /\ UNCHANGED <<histVars, loopVars, wire, sideVars, dispVars, threadVars>> /\ asked' = NoRequest

UnregisterPeer ==
  /\ \E a \in Requesters : UnregisterCall(a)
  /\ UNCHANGED <<histVars, loopVars, wire, sideVars, dispVars, threadVars>> /\ asked' = NoRequest

GetPeersForDiscovery ==
  /\ stats.requests_served < MaxServed
  /\ \E a \in Requesters, m \in MaxResults, c \in RequiredCaps :
       /\ DiscoverCall(a, m, c)
       /\ asked' = Request(a, m, c, isRateLimited(peers, now, a).ret)
  /\ UNCHANGED <<histVars, loopVars, wire, sideVars, dispVars, threadVars>>

UpdatePeerActivity ==
  /\ \E a \in Requesters : TouchCall(a)
  /\ UNCHANGED <<histVars, loopVars, wire, sideVars, dispVars, threadVars>> /\ asked' = NoRequest

CleanupInactivePeers ==
  /\ \E max_age_seconds \in MaxAges : ReapCall(max_age_seconds)
  /\ UNCHANGED <<histVars, loopVars, wire, sideVars, dispVars, threadVars>> /\ asked' = NoRequest

IsRateLimited ==
  /\ \E a \in Requesters : RateCheckCall(a)
  /\ UNCHANGED <<histVars, loopVars, wire, sideVars, dispVars, threadVars>> /\ asked' = NoRequest

GetStats == StatsCall /\ UNCHANGED <<histVars, loopVars, wire, sideVars, dispVars, threadVars>> /\ asked' = NoRequest

Tick == Advance /\ UNCHANGED <<histVars, loopVars, wire, sideVars, dispVars, threadVars>> /\ asked' = NoRequest

Next ==
  \/ RegisterPeer
  \/ UnregisterPeer
  \/ GetPeersForDiscovery
  \/ UpdatePeerActivity
  \/ CleanupInactivePeers
  \/ IsRateLimited
  \/ GetStats
  \/ Tick

Spec == Init /\ [][Next]_vars

(* ------------------------------------------------------------------ *)
(* A run that starts from the empty registry and only registers.       *)
(* ------------------------------------------------------------------ *)
RegisterFirst ==
  \E reg \in FirstRegistrations :
    /\ RegisterCall(reg[1], reg[2], reg[3])
    /\ attempted' = attempted \cup ({reg[1]} \cap ValidAddresses)
    /\ UNCHANGED <<loopVars, wire, sideVars, served, received, asked, dispVars, threadVars>>

NextRegister == RegisterFirst \/ Tick

SpecRegister == Init /\ [][NextRegister]_vars

(* ------------------------------------------------------------------ *)
(* The registry with each requester's served discoveries counted.      *)
(* ------------------------------------------------------------------ *)
\* a discovery; one that is served to a registered requester is counted
CountedDiscovery ==
  /\ stats.requests_served < MaxServed
  /\ \E a \in Requesters, m \in MaxResults, c \in RequiredCaps :
       /\ DiscoverCall(a, m, c)
       /\ served' = IF a \in DOMAIN peers
                       /\ stats'.requests_served # stats.requests_served
                      THEN [served EXCEPT ![a] = @ + 1]
                      ELSE served
  /\ UNCHANGED <<loopVars, wire, sideVars, attempted, received, asked, dispVars, threadVars>>

\* a later instant: nothing has been served at it yet
CountedTick ==
  Advance /\ served' = NoneServed /\ UNCHANGED <<loopVars, wire, sideVars, attempted, received, asked, dispVars, threadVars>>

NextRate ==
  \/ RegisterPeer
  \/ UnregisterPeer
  \/ CountedDiscovery
  \/ UpdatePeerActivity
  \/ CleanupInactivePeers
  \/ CountedTick

SpecRate == Init /\ [][NextRate]_vars

(* ------------------------------------------------------------------ *)
(* The dispatcher handed one message after another, with each peer's   *)
(* served requests counted.                                            *)
(* ------------------------------------------------------------------ *)
ProcessCall(data, peer_address) ==
  \E r \in processMessage(peers, stats, handler, now, data, peer_address) :
    /\ peers' = r.peers
    /\ stats' = r.stats
    /\ handler' = r.handler
    /\ sent' = r.sent
    /\ last' = Returned(r.ret, <<>>, 0)
    /\ UNCHANGED now

\* a message; one from a registered peer that is handled is counted
CountedMessage ==
  /\ handler.messages_processed_ < MaxMessages
  /\ \E data \in Frames, a \in Requesters :
       /\ ProcessCall(data, a)
       /\ served' = IF a \in DOMAIN peers /\ last'.ok
                      THEN [served EXCEPT ![a] = @ + 1]
                      ELSE served
  /\ UNCHANGED <<loopVars, wire, sideVars, attempted, received, asked, threadVars>>

NextWindow == CountedMessage \/ CountedTick

SpecWindow == Init /\ [][NextWindow]_vars

(* ------------------------------------------------------------------ *)
(* The dispatcher handed every kind of frame                           *)
(* ------------------------------------------------------------------ *)

\* the frames of SpecWindow, and: registrations of further addresses, of an
\* address that fails validation and with a payload of the wrong size; a
\* discovery without payload and one whose payload stops after max_peers; a
\* PING without payload; an
\* UNREGISTER whose payload names another peer;
\* a buffer shorter than a header
DispatchFrames ==
  Frames \cup
  {createMessage(PEER_REGISTER, PeerRegisterRequest(AddrB, 9001, 3)),
   createMessage(PEER_REGISTER, PeerRegisterRequest(AddrC, 9002, 2)),
   createMessage(PEER_REGISTER, PeerRegisterRequest(AddrBadChar, 9000, 1)),
   createMessage(PEER_REGISTER, <<Field(2, 9000), Field(4, 1)>>),
   createMessage(PEER_DISCOVERY, <<>>),
   createMessage(PEER_DISCOVERY, <<Field(2, 1)>>),
   createMessage(PING, <<>>),
   createMessage(PEER_UNREGISTER, PeerRegisterRequest(AddrB, 9001, 3)),
   [createMessage(PING, <<>>) EXCEPT !.size = MessageHeaderSize - 1]}

\* one connection: handleConnection hands the bytes it received and the
\* connection's identity to processMessage
Message ==
  /\ handler.messages_processed_ < MaxMessages
  /\ \E data \in DispatchFrames, a \in Requesters :
       /\ ProcessCall(data, a)
       /\ received' = [data |-> data, peer_address |-> a]
  /\ UNCHANGED <<loopVars, wire, sideVars, attempted, served, asked, threadVars>>

DispatchTick ==
  Advance /\ UNCHANGED <<loopVars, wire, sideVars, histVars, asked, dispVars, threadVars>>

NextDispatch == Message \/ DispatchTick

SpecDispatch == Init /\ [][NextDispatch]_vars

(* ------------------------------------------------------------------ *)
(* Threads: the connection threads run processMessage, the cleanup     *)
(* thread runs cleanupInactivePeers. processMessage holds stats_mutex_ *)
(* from its first line to its return; each PeerManager call it makes   *)
(* takes peers_mutex_ for the call, except isRateLimited, which takes  *)
(* no lock. A step that takes and releases peers_mutex_ is one call.   *)
(* ------------------------------------------------------------------ *)

\* the frames and identities of the connections
ConcFrames ==
  {createMessage(PEER_REGISTER, PeerRegisterRequest(AddrA, 9000, 1)),
   createMessage(PEER_REGISTER, PeerRegisterRequest(AddrB, 9001, 3)),
   createMessage(PEER_REGISTER, PeerRegisterRequest(AddrC, 9002, 2)),
   createMessage(PEER_DISCOVERY, PeerDiscoveryRequest(20, 0)),
   createMessage(PEER_UNREGISTER, <<>>),
   [createMessage(PING, <<>>) EXCEPT !.magic = MAGIC_BYTES - 1]}

ConcIdentities == {AddrA, AddrSocket}

\* processMessage returns: the response is sent and stats_mutex_ released
Return(h, frames, ret) ==
  /\ sent' = frames
  /\ last' = Returned(ret, <<>>, 0)
  /\ pc' = [pc EXCEPT ![h] = "idle"]
  /\ msg' = [msg EXCEPT ![h] = NoMessage]
  /\ raced' = [raced EXCEPT ![h] = FALSE]
  /\ stats_mutex_' = NoThread

\* a connection's bytes arrive and processMessage starts: it locks
\* stats_mutex_, counts the message and parses it
Enter(h) ==
  /\ ~crashed
  /\ pc[h] = "idle"
  /\ stats_mutex_ = NoThread
  /\ handler.messages_processed_ < MaxConcMessages
  /\ \E data \in ConcFrames, peer_address \in ConcIdentities :
       LET H1 == [handler EXCEPT !.messages_processed_ = @ + 1]
       IN  IF ~parseMessage(data).ok
             THEN /\ handler' = [H1 EXCEPT !.invalid_messages_ = @ + 1]
                  /\ Return(h, <<ErrorFrame(1, "Invalid GCTY message format")>>, FALSE)
             ELSE /\ handler' = H1
                  /\ stats_mutex_' = h
                  /\ pc' = [pc EXCEPT ![h] = "rate_check"]
                  /\ msg' = [msg EXCEPT ![h] = [data |-> data, peer_address |-> peer_address]]
                  /\ raced' = [raced EXCEPT ![h] = (pc[Reaper] = "reaping")]
                  /\ UNCHANGED <<sent, last>>
  /\ UNCHANGED <<peers, stats, now, histVars, loopVars, wire, sideVars, asked, peers_mutex_, crashed>>

\* what isRateLimited can do when it ran while the cleanup thread was erasing
\* and resetting records: any answer, with or without its reset of the counter
RacedRateCheck(P, onion_address) ==
  {[peers |-> P2, ret |-> b] :
     P2 \in {P} \cup (IF onion_address \in DOMAIN P
                        THEN {[P EXCEPT ![onion_address].request_count = 0]}
                        ELSE {}),
     b \in BOOLEAN}

\* isRateLimited returns to processMessage
RateCheck(h) ==
  /\ ~crashed
  /\ pc[h] = "rate_check"
  /\ \E r \in IF raced[h]
                THEN RacedRateCheck(peers, msg[h].peer_address)
                ELSE {isRateLimited(peers, now, msg[h].peer_address)} :
       /\ peers' = r.peers
       /\ IF r.ret
            THEN /\ handler' = [handler EXCEPT !.rate_limited_requests_ = @ + 1]
                 /\ Return(h, <<ErrorFrame(2, "Rate limit exceeded")>>, FALSE)
            ELSE /\ pc' = [pc EXCEPT ![h] = "touch"]
                 /\ UNCHANGED <<handler, sent, last, msg, raced, stats_mutex_>>
  /\ UNCHANGED <<stats, now, histVars, loopVars, wire, sideVars, asked, peers_mutex_, crashed>>

\* isRateLimited reads a record the cleanup thread has freed
RateCheckCrash(h) ==
  /\ ~crashed
  /\ pc[h] = "rate_check"
  /\ raced[h]
  /\ crashed' = TRUE
  /\ UNCHANGED <<regVars, histVars, loopVars, wire, sideVars, asked, dispVars, pc, msg, raced, stats_mutex_,
                 peers_mutex_>>

\* updatePeerActivity
Touch(h) ==
  /\ ~crashed
  /\ pc[h] = "touch"
  /\ peers_mutex_ = NoThread
  /\ peers' = updatePeerActivity(peers, now, msg[h].peer_address)
  /\ pc' = [pc EXCEPT ![h] = "dispatch"]
  /\ UNCHANGED <<stats, now, last, histVars, loopVars, wire, sideVars, asked, dispVars, msg, raced, stats_mutex_,
                 peers_mutex_, crashed>>

\* the handler of the message's type, then the return of processMessage
Handle(h) ==
  /\ ~crashed
  /\ pc[h] = "dispatch"
  /\ peers_mutex_ = NoThread
  /\ LET parsed == parseMessage(msg[h].data)
     IN  \E r \in Dispatch(peers, stats, handler, now, parsed.type, parsed.payload,
                           msg[h].peer_address) :
           /\ peers' = r.peers
           /\ stats' = r.stats
           /\ handler' = r.handler
           /\ Return(h, r.sent, r.ret)
  /\ UNCHANGED <<now, histVars, loopVars, wire, sideVars, asked, peers_mutex_, crashed>>

\* cleanupLoop calls cleanupInactivePeers, which locks peers_mutex_
ReapBegin ==
  /\ ~crashed
  /\ pc[Reaper] = "sleep"
  /\ peers_mutex_ = NoThread
  /\ peers_mutex_' = Reaper
  /\ pc' = [pc EXCEPT ![Reaper] = "reaping"]
  /\ raced' = [h \in Handlers |-> raced[h] \/ pc[h] = "rate_check"]
  /\ UNCHANGED <<regVars, histVars, loopVars, wire, sideVars, asked, dispVars, msg, stats_mutex_, crashed>>

\* cleanupInactivePeers erases, resets and returns
ReapEnd ==
  /\ ~crashed
  /\ pc[Reaper] = "reaping"
  /\ ReapCall(ReapMaxAge)
  /\ peers_mutex_' = NoThread
  /\ pc' = [pc EXCEPT ![Reaper] = "sleep"]
  /\ UNCHANGED <<histVars, loopVars, wire, sideVars, asked, dispVars, msg, raced, stats_mutex_, crashed>>

\* time passes while the threads run
ConcTick ==
  /\ ~crashed
  /\ Advance
  /\ UNCHANGED <<histVars, loopVars, wire, sideVars, asked, dispVars, threadVars>>

NextConc ==
  \/ \E h \in Handlers : Enter(h)
  \/ \E h \in Handlers : RateCheck(h)
  \/ \E h \in Handlers : RateCheckCrash(h)
  \/ \E h \in Handlers : Touch(h)
  \/ \E h \in Handlers : Handle(h)
  \/ ReapBegin
  \/ ReapEnd
  \/ ConcTick

SpecConc == Init /\ [][NextConc]_vars

(* ------------------------------------------------------------------ *)
(* The background reaper: SeedServer::cleanupLoop                      *)
(* ------------------------------------------------------------------ *)

\* the clock of this specification moves in steps of one rate window
ClockStep == RateWindow

\* clients act up to this instant
ClientHorizon == StartTime + MaxClientSteps * ClockStep

\* the clock is followed until a record written at ClientHorizon has aged
\* out and a further full sleep of the loop has passed
LoopHorizon == ClientHorizon + ReapMaxAge + ClockStep + cleanup_interval_seconds

\* the instants at which clients act
ClientInstants == {StartTime + k * ClockStep : k \in 0..MaxClientSteps}

\* a loop whose sleep never ends
PassNever == FALSE

\* the loop has slept its interval: the for loop of one-second sleeps is over
PassDue == slept >= cleanup_interval_seconds

Running == ~shutdown_requested_

ClientRegister ==
  /\ Running /\ now <= ClientHorizon
  /\ \E reg \in Registrations : RegisterCall(reg[1], reg[2], reg[3])
  /\ UNCHANGED <<histVars, asked, dispVars, threadVars, loopVars, wire, sideVars>>

ClientTouch ==
  /\ Running /\ now <= ClientHorizon
  /\ \E a \in ValidAddresses : a \in DOMAIN peers /\ TouchCall(a)
  /\ UNCHANGED <<histVars, asked, dispVars, threadVars, loopVars, wire, sideVars>>

ClientUnregister ==
  /\ Running /\ now <= ClientHorizon
  /\ \E a \in ValidAddresses : a \in DOMAIN peers /\ UnregisterCall(a)
  /\ UNCHANGED <<histVars, asked, dispVars, threadVars, loopVars, wire, sideVars>>

\* a clock step goes by; the loop counts it while it is sleeping
Elapse ==
  /\ Running /\ now < LoopHorizon
  /\ now' = now + ClockStep
  /\ slept' = IF PassDue THEN slept ELSE slept + ClockStep
  /\ UNCHANGED <<peers, stats, last, histVars, asked, dispVars, threadVars,
                 shutdown_requested_, wire, sideVars>>

\* the body of the loop: cleanupInactivePeers(300), then back to sleep
ReaperPass ==
  /\ Running /\ PassDue
  /\ ReapCall(ReapMaxAge)
  /\ slept' = 0
  /\ UNCHANGED <<histVars, asked, dispVars, threadVars, shutdown_requested_, wire, sideVars>>

\* SeedServer::stop
Stop ==
  /\ Running
  /\ shutdown_requested_' = TRUE
  /\ UNCHANGED <<regVars, histVars, asked, dispVars, threadVars, slept, wire, sideVars>>

NextReaper ==
  \/ ClientRegister
  \/ ClientTouch
  \/ ClientUnregister
  \/ Elapse
  \/ ReaperPass
  \/ Stop

\* time passes, and the cleanup thread, which does nothing but sleep and
\* reap until shutdown is requested, gets to run
SpecReaper ==
  Init /\ [][NextReaper]_vars /\ WF_vars(Elapse) /\ WF_vars(ReaperPass)

(* ------------------------------------------------------------------ *)
(* Properties of registration                                          *)
(* ------------------------------------------------------------------ *)

\* C1: starting from the empty registry, after registering k <= max_peers_
\* distinct valid addresses the registry holds exactly those k records; and a
\* register call for a new valid address made while the registry holds
\* max_peers_ records returns false and leaves the registry unchanged.
RegisterFillsToCapacity ==
  /\ [](Cardinality(attempted) <= max_peers_ => DOMAIN peers = attempted)
  /\ [][\A reg \in FirstRegistrations :
          (/\ RegisterCall(reg[1], reg[2], reg[3])
           /\ isValidOnionAddress(reg[1])
           /\ reg[1] \notin DOMAIN peers
           /\ Cardinality(DOMAIN peers) >= max_peers_)
          => (last'.ok = FALSE /\ peers' = peers)]_vars

\* the registry is full and a further valid address has just been refused
RegisterRefusedAtCapacity ==
  /\ Cardinality(DOMAIN peers) = max_peers_
  /\ Cardinality(attempted) > max_peers_
  /\ last.ok = FALSE

\* C10: registering an address that is already present succeeds even when the
\* registry is full, leaves registered_at as it was, and overwrites last_seen,
\* port and capabilities; no record is added.
ReRegisterKeepsRegisteredAt ==
  [][\A reg \in Registrations :
       (reg[1] \in DOMAIN peers /\ RegisterCall(reg[1], reg[2], reg[3]))
       => (/\ last'.ok = TRUE
           /\ DOMAIN peers' = DOMAIN peers
           /\ peers'[reg[1]].registered_at = peers[reg[1]].registered_at
           /\ peers'[reg[1]].last_seen = now
           /\ peers'[reg[1]].port = reg[2]
           /\ peers'[reg[1]].capabilities = reg[3]
           /\ \A b \in DOMAIN peers \ {reg[1]} : peers'[b] = peers[b])]_vars

\* the registry is full and AddrA, registered at an earlier instant, has just
\* been registered again with another port and other capabilities
ReRegisteredAtCapacity ==
  /\ last.ok = TRUE
  /\ DOMAIN peers = {AddrA, AddrB}
  /\ Cardinality(DOMAIN peers) = max_peers_
  /\ peers[AddrA].registered_at < now
  /\ peers[AddrA].last_seen = now
  /\ peers[AddrA].port = 9001
  /\ peers[AddrB].last_seen < now
  /\ \A a \in DOMAIN peers : peers[a].request_count < rate_limit_per_minute_

(* ------------------------------------------------------------------ *)
(* Properties of discovery: asked is the discovery just answered, last *)
(* is its result; the call leaves every last_seen and the clock alone. *)
(* ------------------------------------------------------------------ *)

\* the stored records a discovery by requesting_peer may return
Candidates(requesting_peer, required_capabilities) ==
  {b \in DOMAIN peers :
     /\ b # requesting_peer
     /\ now - peers[b].last_seen <= ActivityWindow
     /\ (required_capabilities = 0
         \/ BitAnd(peers[b].capabilities, required_capabilities) = required_capabilities)}

\* C6: a discovery never returns the requester's own record.
DiscoveryExcludesRequester ==
  asked # NoRequest
  => \A i \in DOMAIN last.list : last.list[i].onion_address # asked.requesting_peer

\* AddrA and AddrB are both fresh and carry the same capabilities, AddrA has
\* asked for up to 20 records with no mask, and got AddrB only
RequesterLeftOut ==
  /\ asked = Request(AddrA, 20, 0, FALSE)
  /\ DOMAIN peers = {AddrA, AddrB}
  /\ \A a \in DOMAIN peers : peers[a].last_seen = now /\ peers[a].capabilities = 3
  /\ last.list = <<peers[AddrB]>>

\* C7: a discovery never returns a record last seen more than ActivityWindow
\* seconds ago, whether or not the reaper has removed it yet.
DiscoveryExcludesStale ==
  asked # NoRequest
  => \A i \in DOMAIN last.list : now - last.list[i].last_seen <= ActivityWindow

\* AddrB is stale and still in the registry, and a discovery by a stranger for
\* up to 20 records with no mask has returned AddrA only
StaleLeftOut ==
  /\ asked = Request(AddrSocket, 20, 0, FALSE)
  /\ DOMAIN peers = {AddrA, AddrB}
  /\ now - peers[AddrB].last_seen > ActivityWindow
  /\ last.list = <<peers[AddrA]>>

\* C8: with a capabilities mask other than 0 a discovery returns only records
\* that carry every bit of the mask; with the mask 0 no record is left out for
\* its capabilities.
DiscoveryFiltersCapabilities ==
  asked # NoRequest
  => /\ asked.required_capabilities # 0
        => \A i \in DOMAIN last.list :
             BitAnd(last.list[i].capabilities, asked.required_capabilities)
               = asked.required_capabilities
     /\ (asked.required_capabilities = 0 /\ ~asked.limited)
        => Len(last.list) =
             Min(asked.max_count,
                 Cardinality({b \in DOMAIN peers \ {asked.requesting_peer} :
                                now - peers[b].last_seen <= ActivityWindow}))

\* AddrA carries bit 0 only and AddrB bits 0 and 1, both fresh, and a discovery
\* by a stranger for up to 20 records with bits 0 and 1 has returned AddrB only
CapabilitiesLeftOut ==
  /\ asked = Request(AddrSocket, 20, 3, FALSE)
  /\ DOMAIN peers = {AddrA, AddrB}
  /\ peers[AddrA].capabilities = 1
  /\ peers[AddrB].capabilities = 3
  /\ \A a \in DOMAIN peers : peers[a].last_seen = now
  /\ last.list = <<peers[AddrB]>>

\* C9: a discovery by a requester that is not rate limited returns
\* min(|candidates|, max_count) records, all of them stored records of
\* candidates, no candidate twice.
DiscoveryReturnsSubset ==
  (asked # NoRequest /\ ~asked.limited)
  => LET cand == Candidates(asked.requesting_peer, asked.required_capabilities)
     IN  /\ Len(last.list) = Min(Cardinality(cand), asked.max_count)
         /\ \A i \in DOMAIN last.list :
              /\ last.list[i].onion_address \in cand
              /\ last.list[i] = peers[last.list[i].onion_address]
         /\ \A i, j \in DOMAIN last.list :
              i # j => last.list[i].onion_address # last.list[j].onion_address

\* two records were candidates and a discovery for one record has returned one
SubsetCut ==
  /\ asked = Request(AddrSocket, 1, 0, FALSE)
  /\ Candidates(AddrSocket, 0) = {AddrA, AddrB}
  /\ Len(last.list) = 1
  /\ last.list[1] = peers[AddrB]

(* ------------------------------------------------------------------ *)
(* Properties of rate limiting                                         *)
(* ------------------------------------------------------------------ *)

\* C5: at no instant has a registered peer had more than
\* rate_limit_per_minute_ of its discoveries served at that instant, whatever
\* registrations, unregistrations, touches and reaper passes come in between.
DiscoveriesServedWithinLimit ==
  \A a \in Requesters : served[a] <= rate_limit_per_minute_

\* the frames say the request was not served: an error, or a discovery
\* answered with no peer
Rejected(data, frames) ==
  /\ Len(frames) = 1
  /\ \/ frames[1].type = ERROR_RESPONSE
     \/ /\ data.type = PEER_DISCOVERY
        /\ frames[1].type = HANDSHAKE_RESPONSE
        /\ frames[1].payload[1].value = 0

\* C4: once a registered peer has had rate_limit_per_minute_ requests served
\* at one instant, its next request at that instant is rejected: it is
\* answered with an error, or with an empty discovery result.
RequestBeyondLimitRejected ==
  [][\A data \in Frames, a \in Requesters :
       (/\ ProcessCall(data, a)
        /\ a \in DOMAIN peers
        /\ served[a] >= rate_limit_per_minute_)
       => Rejected(data, sent')]_vars

(* ------------------------------------------------------------------ *)
(* Properties of the threads                                           *)
(* ------------------------------------------------------------------ *)

\* C2: however the connection threads' registrations, unregistrations,
\* touches and discoveries interleave with the cleanup thread's passes, the
\* registry never holds more than max_peers_ records.
RegistryWithinCapacity == Cardinality(DOMAIN peers) <= max_peers_

\* the registry is full, a connection thread has just been refused a
\* registration for lack of room, and the cleanup thread is inside a pass
RefusedWhileReaping ==
  /\ Cardinality(DOMAIN peers) = max_peers_
  /\ sent = <<ErrorFrame(6, "Failed to register peer (capacity reached)")>>
  /\ pc[Reaper] = "reaping"

\* the thread is reading or writing peers_
InRegistry(th) == pc[th] \in {"rate_check", "reaping"}

\* C3: a thread reads or writes the registry only while it holds
\* peers_mutex_; in particular no connection thread is inside the rate check
\* of processMessage while the cleanup thread is erasing and resetting records.
RegistryAccessLocked ==
  /\ \A th \in Threads : InRegistry(th) => peers_mutex_ = th
  /\ \A h \in Handlers : ~(pc[h] = "rate_check" /\ pc[Reaper] = "reaping")

\* a connection thread whose identity is a registered address is inside the
\* rate check of processMessage while the cleanup thread holds peers_mutex_
\* inside cleanupInactivePeers
RateCheckDuringReap ==
  \E h \in Handlers :
    /\ pc[h] = "rate_check"
    /\ msg[h].peer_address \in DOMAIN peers
    /\ pc[Reaper] = "reaping"
    /\ peers_mutex_ = Reaper
    /\ raced[h]

(* ------------------------------------------------------------------ *)
(* One message through gotham_protocol::ProtocolUtils                  *)
(* ------------------------------------------------------------------ *)

\* the types encoded: 0, the type a default header carries, a request type
\* and the highest value of the uint8_t
CodecTypes == {0, PEER_MESSAGE, PING, ERROR_RESPONSE}

\* the payloads encoded: none, one byte, three bytes that begin like the end
\* of a header, one of exactly MAX_MESSAGE_SIZE bytes and one a byte longer
CodecPayloads ==
  {<<>>,
   <<Run(7, 1)>>,
   <<Run(0, 2), Run(1, 1)>>,
   <<Run(0, MAX_MESSAGE_SIZE)>>,
   <<Run(255, MAX_MESSAGE_SIZE + 1)>>}

\* what the caller's payload vector holds before parseMessage is called
GivenPayloads == {<<>>, <<Run(170, 3)>>}

\* the offsets of header bytes that get overwritten: one byte of each field
\* and both ends of payload_length
CorruptOffsets == {0, 5, 7, 8, 9, 10, 12, 15}

\* the byte with its lowest bit flipped
FlipBit(byte) == IF byte % 2 = 0 THEN byte + 1 ELSE byte - 1

\* the lengths a buffer is cut to
Cuts(data) == {0, 1, MessageHeaderSize - 1, MessageHeaderSize, Size(data) - 1}

\* a sender, little-endian or big-endian, encodes a message
Encode ==
  /\ \E type \in CodecTypes, payload \in CodecPayloads, little_endian \in BOOLEAN :
       wire' = [NoWire EXCEPT !.type = type, !.payload = payload,
                              !.data = gotham_createMessage(type, payload, little_endian),
                              !.intact = TRUE]
  /\ UNCHANGED <<regVars, histVars, asked, dispVars, threadVars, loopVars, sideVars>>

Changed(data) ==
  /\ ~wire.parsed
  /\ wire.changes < MaxChanges
  /\ wire' = [wire EXCEPT !.data = data, !.intact = FALSE, !.changes = @ + 1]
  /\ UNCHANGED <<regVars, histVars, asked, dispVars, threadVars, loopVars, sideVars>>

\* the receiver gets only the beginning of the bytes
Truncate ==
  \E n \in Cuts(wire.data) : n >= 0 /\ n < Size(wire.data) /\ Changed(UpTo(wire.data, n))

\* the receiver gets a byte more; it may land in the most significant place
\* of a header field, and the header's numbers are kept below 2^31
Extend ==
  \E byte \in {0, 127} : Changed(wire.data \o <<Run(byte, 1)>>)

\* a byte of the header arrives changed
Corrupt ==
  \E i \in CorruptOffsets :
    /\ i < Size(wire.data)
    /\ \E byte \in {0, 1, FlipBit(ByteAt(wire.data, i))} :
         /\ byte # ByteAt(wire.data, i)
         /\ Changed(UpTo(wire.data, i) \o <<Run(byte, 1)>> \o From(wire.data, i + 1))

\* a receiver, little-endian or big-endian, parses the bytes it got
Decode ==
  /\ ~wire.parsed
  /\ \E little_endian \in BOOLEAN, payload_in \in GivenPayloads :
       \E o \in gotham_parseMessage(wire.data, NewMessageHeader, payload_in, little_endian) :
         wire' = [wire EXCEPT !.given = payload_in, !.parsed = TRUE, !.out = o]
  /\ UNCHANGED <<regVars, histVars, asked, dispVars, threadVars, loopVars, sideVars>>

NextCodec == Encode \/ Truncate \/ Extend \/ Corrupt \/ Decode

SpecCodec == Init /\ [][NextCodec]_vars

(* ------------------------------------------------------------------ *)
(* Properties of the reaper                                            *)
(* ------------------------------------------------------------------ *)

\* C11: a reap removes exactly the records last seen more than
\* max_age_seconds ago and returns how many they were; a surviving record
\* keeps its address, port, capabilities, last_seen and registered_at, and its
\* request_count is set to 0 if it was last seen RateWindow seconds ago or
\* more and is left alone otherwise.
ReapRemovesExactlyStale ==
  [][\A max_age_seconds \in MaxAges :
       ReapCall(max_age_seconds)
       => LET stale == {a \in DOMAIN peers : now - peers[a].last_seen > max_age_seconds}
          IN  /\ DOMAIN peers' = DOMAIN peers \ stale
              /\ last'.count = Cardinality(stale)
              /\ \A a \in DOMAIN peers' :
                   peers'[a] = [peers[a] EXCEPT !.request_count =
                                  IF now - peers[a].last_seen >= RateWindow THEN 0 ELSE @]]_vars

\* a reap has just removed both records of a full registry
ReapRemovedAll ==
  /\ last.count = max_peers_
  /\ peers = << >>
  /\ stats.total_peers = 0
  /\ now > StartTime

\* C12: while the server runs, a record that is neither touched nor
\* registered again leaves the registry: the reaper removes it once it was
\* last seen more than 300 s ago, whatever the clients do.
StaleEventuallyReaped ==
  \A a \in ValidAddresses :
    \A t \in ClientInstants :
      (a \in DOMAIN peers /\ peers[a].last_seen = t)
        ~> (\/ shutdown_requested_
            \/ a \notin DOMAIN peers
            \/ peers[a].last_seen # t)

\* the loop has just removed a record that no client had touched for more
\* than 300 s, and kept a younger one
ReaperRemovedStale ==
  /\ ~shutdown_requested_
  /\ slept = 0
  /\ last.count = 1
  /\ DOMAIN peers = {AddrB}
  /\ now - peers[AddrB].last_seen <= ReapMaxAge

(* ------------------------------------------------------------------ *)
(* Properties of the dispatcher                                        *)
(* ------------------------------------------------------------------ *)

\* the code of an ERROR_RESPONSE frame, 0 for any other frame
ErrorCode(frame) ==
  IF frame.type = ERROR_RESPONSE THEN frame.payload[1].value ELSE 0

\* the step is one call of processMessage, on received'.data from
\* received'.peer_address
Dispatched == handler'.messages_processed_ = handler.messages_processed_ + 1

\* C13: every call of processMessage, whatever the bytes and the identity,
\* passes exactly one frame to the response callback, and returns true
\* exactly when that frame is not an ERROR frame.
OneResponsePerMessage ==
  [][Dispatched
       => /\ Len(sent') = 1
          /\ last'.ok = (sent'[1].type # ERROR_RESPONSE)]_vars

\* a handler's failure branch has answered once, after a parse failure and
\* two successes had been answered
FailureAnsweredOnce ==
  /\ handler.messages_processed_ = 4
  /\ handler.invalid_messages_ = 2
  /\ handler.peer_registrations_ = 1
  /\ handler.ping_requests_ = 1
  /\ received.data.type = PEER_UNREGISTER
  /\ Len(sent) = 1 /\ ErrorCode(sent[1]) = 7
  /\ ~last.ok

\* the bytes fail frame parsing
Malformed(data) == ~parseMessage(data).ok

\* the identity has used up its requests of the current window
RateLimited(a) ==
  /\ a \in DOMAIN peers
  /\ now - peers[a].last_seen < RateWindow
  /\ peers[a].request_count >= rate_limit_per_minute_

\* C14: a request that fails frame parsing is answered with ERROR code 1 and
\* counted as invalid; a request that parses but comes from a rate-limited
\* identity is answered with ERROR code 2 and counted as rate-limited. In
\* both cases no record is added, removed or modified (last_seen included)
\* and no other counter moves.
ShortCircuitBeforeHandlers ==
  [][Dispatched
       => LET data == received'.data
              a == received'.peer_address
          IN  /\ Malformed(data)
                 => /\ ErrorCode(sent'[1]) = 1
                    /\ peers' = peers /\ stats' = stats
                    /\ handler' = [handler EXCEPT !.messages_processed_ = @ + 1,
                                                  !.invalid_messages_ = @ + 1]
              /\ (~Malformed(data) /\ RateLimited(a))
                 => /\ ErrorCode(sent'[1]) = 2
                    /\ peers' = peers /\ stats' = stats
                    /\ handler' = [handler EXCEPT !.messages_processed_ = @ + 1,
                                                  !.rate_limited_requests_ = @ + 1]]_vars

\* a well-formed REGISTER from an identity that had used up its window has
\* been refused with code 2 and has left the registry as it was
RefusedBeforeHandlers ==
  /\ handler.rate_limited_requests_ = 1
  /\ handler.invalid_messages_ = 0
  /\ received.data.type = PEER_REGISTER
  /\ PayloadSize(received.data.payload) = PeerRegisterRequestSize
  /\ received.data.payload[3].value # received.peer_address
  /\ received.peer_address \in DOMAIN peers
  /\ received.data.payload[3].value \notin DOMAIN peers
  /\ ErrorCode(sent[1]) = 2

\* why a request fails, judged on the request and on the registry before it:
\* 1 malformed frame, 2 rate limited, 3 unsupported type, 4 bad REGISTER
\* payload size, 5 invalid address format, 6 capacity reached, 7 peer not
\* found for unregister; 0 when it does not fail
FailureReason(data, a) ==
  IF Malformed(data) THEN 1
  ELSE IF RateLimited(a) THEN 2
  ELSE IF data.type \notin {PEER_REGISTER, PEER_DISCOVERY, PEER_UNREGISTER, PING} THEN 3
  ELSE IF data.type = PEER_REGISTER
    THEN IF PayloadSize(data.payload) # PeerRegisterRequestSize THEN 4
         ELSE IF ~isValidOnionAddress(data.payload[3].value) THEN 5
         ELSE IF /\ data.payload[3].value \notin DOMAIN peers
                 /\ Cardinality(DOMAIN peers) >= max_peers_ THEN 6
         ELSE 0
  ELSE IF data.type = PEER_UNREGISTER /\ a \notin DOMAIN peers THEN 7
  ELSE 0

\* C15: a request is answered with an ERROR frame exactly when it fails, and
\* the code of the frame is the code of its failure reason, one code per
\* reason: a REGISTER refused only because the registry is full gets 6; a
\* REGISTER whose payload address fails validation gets 5, full registry or
\* not, and register is not called for it: the set of records, the
\* registry's statistics and every record's port, capabilities and
\* registered_at are as before.
OneCodePerFailureReason ==
  [][Dispatched
       => LET data == received'.data
              a == received'.peer_address
          IN  /\ ErrorCode(sent'[1]) = FailureReason(data, a)
              /\ FailureReason(data, a) = 5
                 => /\ DOMAIN peers' = DOMAIN peers
                    /\ stats' = stats
                    /\ \A b \in DOMAIN peers :
                         /\ peers'[b].port = peers[b].port
                         /\ peers'[b].capabilities = peers[b].capabilities
                         /\ peers'[b].registered_at = peers[b].registered_at
                         /\ b # a => peers'[b] = peers[b]]_vars

\* a REGISTER of a valid new address has been refused with code 6 by a full
\* registry
RefusedForCapacity ==
  /\ received.data.type = PEER_REGISTER
  /\ PayloadSize(received.data.payload) = PeerRegisterRequestSize
  /\ received.data.payload[3].value = AddrC
  /\ Cardinality(DOMAIN peers) = max_peers_
  /\ AddrC \notin DOMAIN peers
  /\ ErrorCode(sent[1]) = 6

\* the frame is a success response to a discovery that carries no peer
EmptySuccess(frame) ==
  /\ frame.type = HANDSHAKE_RESPONSE
  /\ frame.payload # <<>>
  /\ frame.payload[1].value = 0

\* C16, as the specification states it: a DISCOVERY from a rate-limited
\* requester is answered with a success response carrying zero peers, and a
\* request of any other type from a rate-limited identity with ERROR code 2.
RateLimitedDiscoveryEmptySuccess ==
  [][(/\ Dispatched
      /\ ~Malformed(received'.data)
      /\ RateLimited(received'.peer_address))
       => IF received'.data.type = PEER_DISCOVERY
            THEN EmptySuccess(sent'[1])
            ELSE ErrorCode(sent'[1]) = 2]_vars

\* C16, as the code behaves: a DISCOVERY from a rate-limited identity is
\* answered like a request of any other type, with ERROR code 2, and is not
\* counted as a discovery; a DISCOVERY is answered with a success response
\* exactly when its frame parses and its identity is not rate-limited.
RateLimitedDiscoveryRefused ==
  [][(/\ Dispatched
      /\ received'.data.type = PEER_DISCOVERY
      /\ ~Malformed(received'.data))
       => IF RateLimited(received'.peer_address)
            THEN /\ ErrorCode(sent'[1]) = 2
                 /\ handler'.peer_discoveries_ = handler.peer_discoveries_
                 /\ stats' = stats
            ELSE /\ sent'[1].type = HANDSHAKE_RESPONSE
                 /\ handler'.peer_discoveries_ = handler.peer_discoveries_ + 1]_vars

\* a registered peer's discovery has been refused with code 2 after its
\* rate_limit_per_minute_ discoveries of the window had been answered
DiscoveryRefused ==
  /\ received.data.type = PEER_DISCOVERY
  /\ received.peer_address \in DOMAIN peers
  /\ handler.peer_discoveries_ = rate_limit_per_minute_
  /\ handler.rate_limited_requests_ = 1
  /\ ErrorCode(sent[1]) = 2

\* C20: UNREGISTER removes the record of the connection's identity, whatever
\* its payload carries: if the identity is registered its record is the only
\* one removed, the others are left as they were and the response is a
\* success; otherwise the response is ERROR code 7 and the registry is
\* unchanged.
UnregisterByConnectionIdentity ==
  [][(/\ Dispatched
      /\ received'.data.type = PEER_UNREGISTER
      /\ ~Malformed(received'.data)
      /\ ~RateLimited(received'.peer_address))
       => LET a == received'.peer_address
          IN  IF a \in DOMAIN peers
                THEN /\ DOMAIN peers' = DOMAIN peers \ {a}
                     /\ \A b \in DOMAIN peers' : peers'[b] = peers[b]
                     /\ sent'[1].type = HANDSHAKE_RESPONSE
                     /\ last'.ok
                ELSE /\ ErrorCode(sent'[1]) = 7
                     /\ peers' = peers
                     /\ ~last'.ok]_vars

\* the connection of one registered peer has sent an UNREGISTER whose payload
\* names the other registered peer: the sender's record is gone, the named
\* one is still there
UnregisteredSenderNotNamed ==
  /\ received.data.type = PEER_UNREGISTER
  /\ PayloadSize(received.data.payload) = PeerRegisterRequestSize
  /\ received.data.payload[3].value = AddrB
  /\ received.peer_address = AddrA
  /\ handler.peer_registrations_ = 2
  /\ DOMAIN peers = {AddrB}
  /\ sent[1].type = HANDSHAKE_RESPONSE

(* ------------------------------------------------------------------ *)
(* Properties of the codec                                             *)
(* ------------------------------------------------------------------ *)

\* payload_length as the bytes in transit declare it: bytes 12 to 15 of the
\* header, most significant first
Declared(data) ==
  ByteAt(data, 12) * 16777216 + ByteAt(data, 13) * 65536
    + ByteAt(data, 14) * 256 + ByteAt(data, 15)

\* C17: for every type and every payload of at most MAX_MESSAGE_SIZE bytes,
\* parsing the bytes createMessage produced succeeds and yields the type and
\* a payload equal, byte for byte, to the ones encoded, whichever the byte
\* orders of the sending and the receiving host.
RoundTrip ==
  (wire.parsed /\ wire.intact /\ Size(wire.payload) <= MAX_MESSAGE_SIZE)
    => /\ wire.out.ok
       /\ wire.out.header.type = wire.type
       /\ SameBytes(wire.out.payload, wire.payload)

\* a message with a payload of exactly MAX_MESSAGE_SIZE bytes has come back
\* from the parse, into a vector that held other bytes before
RoundTripAtMaximum ==
  /\ wire.parsed /\ wire.intact
  /\ Size(wire.payload) = MAX_MESSAGE_SIZE
  /\ wire.type = ERROR_RESPONSE
  /\ wire.given # <<>>
  /\ wire.out.ok
  /\ Size(wire.out.payload) = MAX_MESSAGE_SIZE

\* C18: a parse of fewer bytes than a header has fails, reads no byte at or
\* past the end of the buffer, and leaves the caller's payload as it was.
ShortBufferRefused ==
  (wire.parsed /\ Size(wire.data) < MessageHeaderSize)
    => /\ ~wire.out.ok
       /\ wire.out.read <= Size(wire.data)
       /\ wire.out.payload = wire.given

\* a buffer one byte short of a header has been refused
HeaderMinusOneRefused ==
  /\ wire.parsed
  /\ Size(wire.data) = MessageHeaderSize - 1
  /\ ~wire.out.ok

\* C19: a parse of a header followed by more or fewer bytes than its
\* payload_length declares fails and leaves the caller's payload as it was;
\* a parse that succeeds returns a payload of exactly the declared length.
LengthMismatchRefused ==
  (wire.parsed /\ Size(wire.data) >= MessageHeaderSize)
    => /\ Declared(wire.data) # Size(wire.data) - MessageHeaderSize
          => (~wire.out.ok /\ wire.out.payload = wire.given)
       /\ wire.out.ok => Size(wire.out.payload) = Declared(wire.data)

\* a header with everything right but a byte trailing its declared payload
\* has been refused
TrailingByteRefused ==
  /\ wire.parsed
  /\ Size(wire.data) > MessageHeaderSize
  /\ Size(wire.data) = MessageHeaderSize + Declared(wire.data) + 1
  /\ Declared(wire.data) = Size(wire.payload)
  /\ UpTo(wire.data, MessageHeaderSize)
       = UpTo(gotham_createMessage(wire.type, wire.payload, TRUE), MessageHeaderSize)
  /\ wire.given # <<>>
  /\ ~wire.out.ok

\* the number of peers a discovery response carries
PeerCount(frame) == frame.payload[1].value

MaxCrowd == 52
\* size_t max_peers of a direct call
DirectMaxPeers == {0, 1, DefaultMaxPeers, DiscoveryCeiling, DiscoveryCeiling + 1, 500}
\* uint16_t PeerDiscoveryRequest::max_peers
RequestedMaxPeers == {0, 1, DefaultMaxPeers, DiscoveryCeiling, DiscoveryCeiling + 1, 65535}

\* registerPeer of a new record that a discovery finds eligible
CrowdJoin ==
  /\ crowd < MaxCrowd
  /\ crowd' = crowd + 1
  /\ UNCHANGED <<regVars, histVars, asked, dispVars, threadVars, loopVars, wire, picked, conn, life, snap>>

\* unregisterPeer of such a record
CrowdLeave ==
  /\ crowd > 0
  /\ crowd' = crowd - 1
  /\ UNCHANGED <<regVars, histVars, asked, dispVars, threadVars, loopVars, wire, picked, conn, life, snap>>

\* getPeersForDiscovery called on the registry, for a requester it does not limit
CrowdDirect ==
  /\ \E max_peers \in DirectMaxPeers :
       picked' = [via |-> "direct", max_peers |-> max_peers,
                  returned |-> SubsetSize(crowd, max_peers)]
  /\ UNCHANGED <<regVars, histVars, asked, dispVars, threadVars, loopVars, wire, crowd, conn, life, snap>>

\* handlePeerDiscovery with a whole payload, for a requester the registry does
\* not limit
CrowdRequest ==
  /\ \E max_peers \in RequestedMaxPeers :
       picked' = [via |-> "request", max_peers |-> max_peers,
                  returned |-> SubsetSize(crowd, LimitMaxPeers(max_peers))]
  /\ UNCHANGED <<regVars, histVars, asked, dispVars, threadVars, loopVars, wire, crowd, conn, life, snap>>

NextCrowd == CrowdJoin \/ CrowdLeave \/ CrowdDirect \/ CrowdRequest

SpecCrowd == Init /\ [][NextCrowd]_vars

\* C22, as the specification states it: no discovery result contains more than
\* 50 peers, whether it was asked for by a DISCOVERY request or by a direct
\* call of the registry's discover.
DiscoveryNeverAboveCeiling == picked.returned <= DiscoveryCeiling

\* C22, as the code behaves: the result of a DISCOVERY request never contains
\* more than 50 peers, whatever max_peers the request carries; the result of a
\* direct call contains as many eligible peers as there are, up to the
\* max_peers of the call, which no ceiling bounds.
RequestNeverAboveCeiling ==
  /\ picked.via = "request" => picked.returned <= DiscoveryCeiling
  /\ picked.via = "direct" => picked.returned <= picked.max_peers

\* a request for more than 50 peers, with more than 50 eligible, got 50
RequestCutToCeiling ==
  /\ picked.via = "request"
  /\ picked.max_peers > DiscoveryCeiling
  /\ crowd > DiscoveryCeiling
  /\ picked.returned = DiscoveryCeiling

\* C23: a PING that reaches its handler is answered with one PONG frame that
\* carries the payload of the request, whatever that payload is, and the
\* handler leaves the registry as the dispatcher handed it over: the registry
\* after the call is the registry after the dispatcher's rate check and touch,
\* and the registry's statistics are unchanged.
PingEchoed ==
  [][(/\ Dispatched
      /\ received'.data.type = PING
      /\ ~Malformed(received'.data)
      /\ ~RateLimited(received'.peer_address))
       => /\ sent' = <<createMessage(PONG, received'.data.payload)>>
          /\ peers' = updatePeerActivity(
                        isRateLimited(peers, now, received'.peer_address).peers,
                        now, received'.peer_address)
          /\ stats' = stats
          /\ last'.ok]_vars

\* a PING with a payload, sent to a server with two registered peers, has been
\* answered with a PONG of that payload
PingWithPayloadEchoed ==
  /\ received.data.type = PING
  /\ received.data.payload # <<>>
  /\ sent = <<createMessage(PONG, received.data.payload)>>
  /\ Cardinality(DOMAIN peers) = 2

\* C24: a call that creates a record for an address that was not in the
\* registry adds exactly one to the registrations-processed counter, and every
\* other step (a re-registration, a rejected registration) leaves the counter
\* as it was; so the counter is the number of first-time registrations.
RegistrationsCounted ==
  [][stats'.registrations_processed
       = stats.registrations_processed
           + (IF DOMAIN peers' \ DOMAIN peers # {} THEN 1 ELSE 0)]_vars

\* C25, as the specification states it: a discovery refused because the
\* requester is rate-limited returns the empty list and adds one to the
\* requests-served counter, as a discovery that is answered does.
RefusedDiscoveryCounted ==
  [][(asked'.limited /\ asked' # asked)
       => /\ last'.list = <<>>
          /\ stats'.requests_served = stats.requests_served + 1]_vars

\* C25, as the code behaves: a discovery refused because the requester is
\* rate-limited returns the empty list and leaves every statistic, the
\* requests-served counter included, and the requester's request count as they
\* were; only a discovery that is not refused adds one to requests-served.
RefusedDiscoveryNotCounted ==
  [][(asked' # NoRequest /\ asked' # asked)
       => IF asked'.limited
            THEN /\ last'.list = <<>>
                 /\ stats' = stats
                 /\ peers' = peers
            ELSE stats'.requests_served = stats.requests_served + 1]_vars

\* a requester that has been served its share has been refused, and the
\* counter shows the served requests only
RefusedAfterServed ==
  /\ asked.limited
  /\ last.list = <<>>
  /\ stats.requests_served = rate_limit_per_minute_

(* ------------------------------------------------------------------ *)
(* Connections through TorManager. listenLoop accepts a socket and     *)
(* starts handleConnection on it, which makes up an identity for the   *)
(* socket and calls the connection handler SeedServer::initialize set: *)
(* SeedServer::handleConnection. One connection is one step here.      *)
(* ------------------------------------------------------------------ *)
\* the file descriptors accept returns
SocketFds == {5, 6}

\* TorManager::getPeerAddress: "peer_" << socket_fd << "_" << ticks
getPeerAddress(socket_fd) ==
  [chars |-> {"p", "e", "r", "_"}, len |-> 5,
   tail |-> IF socket_fd = 5 THEN "5_1700" ELSE "6_1700"]

\* SeedServer::initialize sets the connection handler before it listens
connection_handler_ == TRUE

\* what recv leaves: its return value and, when that is positive, the buffer
\* resized to it
Incoming(count, data) == [received |-> count, data |-> data]

\* the size in bytes of a frame on the wire
FrameSize(frame) == MessageHeaderSize + PayloadSize(frame.payload)

\* recv fails or times out (-1), the peer has closed (0), or a frame is read
Incomings ==
  {Incoming(-1, createMessage(0, <<>>)), Incoming(0, createMessage(0, <<>>))}
    \cup {Incoming(FrameSize(f), f) : f \in Frames}

\* the calls made on the socket, in order, and the frames written
Connection(P, S, H, frames, called, calls) ==
  [peers |-> P, stats |-> S, handler |-> H, sent |-> frames, called |-> called,
   calls |-> calls, written |-> frames]

\* a handleConnection that leaves the closing of an empty connection to its end
handleConnectionCloseTwice(P, S, H, t, socket_fd, peer_address, incoming) ==
  IF incoming.received <= 0
    THEN {Connection(P, S, H, <<>>, FALSE, <<"recv", "close", "close">>)}
  ELSE {Connection(r.peers, r.stats, r.handler, r.sent, TRUE,
                   <<"recv">> \o [i \in 1..Len(r.sent) |-> "send"] \o <<"close">>) :
          r \in processMessage(P, S, H, t, incoming.data, peer_address)}

\* SeedServer::handleConnection: every outcome
handleConnection(P, S, H, t, socket_fd, peer_address, incoming) ==
  IF incoming.received <= 0
    THEN {Connection(P, S, H, <<>>, FALSE, <<"recv", "close">>)}
  ELSE {Connection(r.peers, r.stats, r.handler, r.sent, TRUE,
                   <<"recv">> \o [i \in 1..Len(r.sent) |-> "send"] \o <<"close">>) :
          r \in processMessage(P, S, H, t, incoming.data, peer_address)}

\* TorManager::handleConnection
TorHandleConnection(P, S, H, t, client_socket, incoming) ==
  IF connection_handler_
    THEN handleConnection(P, S, H, t, client_socket, getPeerAddress(client_socket), incoming)
    ELSE {Connection(P, S, H, <<>>, FALSE, <<"close">>)}

\* the response is a list of at least one peer
PeersAnswer(frames) ==
  /\ Len(frames) = 1
  /\ frames[1].type = HANDSHAKE_RESPONSE
  /\ PeerCount(frames[1]) >= 1

\* listenLoop accepts a connection and its thread runs to its end
TorConnection ==
  \E client_socket \in SocketFds, incoming \in Incomings :
    /\ incoming.received > 0 => handler.messages_processed_ < MaxMessages
    /\ \E r \in TorHandleConnection(peers, stats, handler, now, client_socket, incoming) :
         /\ peers' = r.peers
         /\ stats' = r.stats
         /\ handler' = r.handler
         /\ sent' = IF r.called THEN r.sent ELSE sent
         /\ last' = NoCall
         /\ received' = IF r.called
                          THEN [data |-> incoming.data,
                                peer_address |-> getPeerAddress(client_socket)]
                          ELSE received
         /\ conn' = [socket_fd |-> client_socket,
                     peer_address |-> getPeerAddress(client_socket),
                     received |-> incoming.received,
                     calls |-> r.calls,
                     written |-> r.written,
                     answered |-> IF r.called /\ incoming.data.type = PEER_DISCOVERY
                                       /\ PeersAnswer(r.sent)
                                    THEN conn.answered + 1 ELSE conn.answered]
    /\ UNCHANGED <<now, attempted, served, asked, threadVars, loopVars, wire, crowd, picked, life, snap>>

\* the clock moves on to another minute
TorTick ==
  /\ Advance
  /\ conn' = [conn EXCEPT !.answered = 0]
  /\ UNCHANGED <<histVars, asked, dispVars, threadVars, loopVars, wire, crowd, picked, life, snap>>

NextTor == TorConnection \/ TorTick

SpecTor == Init /\ [][NextTor]_vars

\* the number of calls of one kind made on the socket
RECURSIVE Count(_, _)
Count(calls, op) ==
  IF calls = <<>> THEN 0
  ELSE (IF Head(calls) = op THEN 1 ELSE 0) + Count(Tail(calls), op)

\* C26: on every path of an accepted connection the socket is closed exactly
\* once, and nothing is done with it afterwards; it is read once; nothing is
\* written when the read fails or returns no bytes, and otherwise the one
\* frame the dispatcher passed to the response callback is written, once.
ConnectionClosedOnce ==
  conn # NoConnection
    => /\ Count(conn.calls, "close") = 1
       /\ conn.calls[Len(conn.calls)] = "close"
       /\ Count(conn.calls, "recv") = 1
       /\ Count(conn.calls, "send") = Len(conn.written)
       /\ IF conn.received <= 0
            THEN conn.written = <<>>
            ELSE conn.written = sent /\ Len(conn.written) = 1

\* a connection whose read returned no bytes has been closed after one that
\* was answered
EmptyReadClosed ==
  /\ conn.received = 0
  /\ conn.calls = <<"recv", "close">>
  /\ handler.messages_processed_ > 0

\* C30: rate limiting is effective for the clients that come through
\* TorManager: of the DISCOVERY requests made at one instant, each on a
\* connection of its own, no more than rate_limit_per_minute_ are answered
\* with a list that holds a peer.
TorDiscoveriesLimited == conn.answered <= rate_limit_per_minute_

(* ------------------------------------------------------------------ *)
(* Shutdown. stop() sets the flags, joins the server thread and the    *)
(* cleanup thread, and calls cleanup(), whose TorManager::stop() calls *)
(* stopListening(): listening_ = false, close(listen_socket_), join    *)
(* of the listen thread. The listen thread blocks in accept. What a    *)
(* close does to an accept that another thread is blocked in is left   *)
(* to the platform: it returns with an error, or it goes on waiting    *)
(* for a connection (Linux). Both are outcomes here.                   *)
(* ------------------------------------------------------------------ *)
\* close(listen_socket_) while the listen thread is blocked in accept: the
\* accept is woken or it is not
CloseWakes == {TRUE, FALSE}

lifeOthers == <<regVars, histVars, asked, dispVars, threadVars, wire, crowd, picked, conn, snap>>

\* SeedServer::serverLoop
ServerLoop ==
  /\ \/ /\ life.server_thread_ = "while"
        /\ life' = [life EXCEPT !.server_thread_ =
                      IF shutdown_requested_ THEN "ended" ELSE "sleep_for"]
     \/ /\ life.server_thread_ = "sleep_for"
        /\ life' = [life EXCEPT !.server_thread_ = "while"]
  /\ UNCHANGED <<lifeOthers, loopVars>>

\* SeedServer::cleanupLoop, its calls of sleep_for and its tests of the flag
CleanupLoop ==
  /\ \/ /\ life.cleanup_thread_ = "while"
        /\ life' = [life EXCEPT !.cleanup_thread_ =
                      IF shutdown_requested_ THEN "ended" ELSE "for"]
        /\ slept' = 0
        /\ UNCHANGED <<regVars, shutdown_requested_>>
     \/ /\ life.cleanup_thread_ = "for"
        /\ life' = [life EXCEPT !.cleanup_thread_ =
                      IF slept < cleanup_interval_seconds /\ ~shutdown_requested_
                        THEN "sleep_for" ELSE "if"]
        /\ UNCHANGED <<regVars, loopVars>>
     \/ /\ life.cleanup_thread_ = "sleep_for"
        /\ life' = [life EXCEPT !.cleanup_thread_ = "for"]
        /\ slept' = slept + 1
        /\ UNCHANGED <<regVars, shutdown_requested_>>
     \/ /\ life.cleanup_thread_ = "if"
        /\ life' = [life EXCEPT !.cleanup_thread_ =
                      IF shutdown_requested_ THEN "ended" ELSE "cleanupInactivePeers"]
        /\ UNCHANGED <<regVars, loopVars>>
     \/ /\ life.cleanup_thread_ = "cleanupInactivePeers"
        /\ ReapCall(ReapMaxAge)
        /\ life' = [life EXCEPT !.cleanup_thread_ = "while"]
        /\ UNCHANGED loopVars
  /\ UNCHANGED <<histVars, asked, dispVars, threadVars, wire, crowd, picked, conn, snap>>

\* TorManager::listenLoop, but for the arrival of a connection: the test of
\* listening_, the call of accept, and an accept that fails
ListenLoop ==
  /\ \/ /\ life.listen_thread_ = "while"
        /\ life' = [life EXCEPT !.listen_thread_ =
                      IF life.listening_ THEN "accept" ELSE "ended"]
     \/ /\ life.listen_thread_ = "accept"
        /\ life' = [life EXCEPT !.listen_thread_ =
                      IF life.listen_socket_ = -1 THEN "while" ELSE "blocked"]
     \/ /\ life.listen_thread_ = "blocked"
        /\ life.woken
        /\ life' = [life EXCEPT !.listen_thread_ = "while", !.woken = FALSE]
  /\ UNCHANGED <<lifeOthers, loopVars>>

\* a client connects: the blocked accept returns its socket, and listenLoop
\* detaches a thread for it
ClientConnects ==
  /\ life.listen_thread_ = "blocked"
  /\ life' = [life EXCEPT !.listen_thread_ = "while", !.woken = FALSE]
  /\ UNCHANGED <<lifeOthers, loopVars>>

\* SeedServer::stop is called on the running server
StopCalled ==
  /\ life.stop = "idle"
  /\ life.running_
  /\ shutdown_requested_' = TRUE
  /\ life' = [life EXCEPT !.running_ = FALSE, !.stop = "server_thread_.join"]
  /\ UNCHANGED <<lifeOthers, slept>>

\* SeedServer::stop after it has set the flags, SeedServer::cleanup,
\* TorManager::stop and TorManager::stopListening
StopGoesOn ==
  /\ \/ /\ life.stop = "server_thread_.join"
        /\ life.server_thread_ = "ended"
        /\ life' = [life EXCEPT !.stop = "cleanup_thread_.join"]
     \/ /\ life.stop = "cleanup_thread_.join"
        /\ life.cleanup_thread_ = "ended"
        /\ life' = [life EXCEPT !.stop = "stopListening"]
     \/ /\ life.stop = "stopListening"
        /\ life' = [life EXCEPT !.listening_ = FALSE, !.stop = "close"]
     \/ /\ life.stop = "close"
        /\ \E wakes \in CloseWakes :
             life' = [life EXCEPT !.listen_socket_ = -1,
                                  !.woken = life.listen_thread_ = "blocked" /\ wakes,
                                  !.stop = "listen_thread_.join"]
     \/ /\ life.stop = "listen_thread_.join"
        /\ life.listen_thread_ = "ended"
        /\ life' = [life EXCEPT !.stop = "returned"]
  /\ UNCHANGED <<lifeOthers, loopVars>>

NextStop ==
  ServerLoop \/ CleanupLoop \/ ListenLoop \/ ClientConnects \/ StopCalled \/ StopGoesOn

\* every thread that can take a step takes it in the end; nothing makes a
\* client connect, and nothing makes anybody call stop()
SpecStop ==
  /\ Init /\ [][NextStop]_vars
  /\ WF_vars(ServerLoop) /\ WF_vars(CleanupLoop) /\ WF_vars(ListenLoop)
  /\ WF_vars(StopGoesOn)

\* C27: once stop() has been called on the running server, the server loop
\* and the cleanup loop end, and stop() returns: it does not wait for ever
\* for any thread.
StopReturns ==
  (life.stop # "idle")
    ~> /\ life.server_thread_ = "ended"
       /\ life.cleanup_thread_ = "ended"
       /\ life.stop = "returned"

(* ------------------------------------------------------------------ *)
(* The response callback. handleConnection passes processMessage a     *)
(* lambda that calls send on the connection's socket; the handlers and *)
(* sendErrorResponse call it before they return to processMessage,     *)
(* whose lock_guard on stats_mutex_ lives until processMessage         *)
(* returns. Each PeerManager call a handler makes has returned, and    *)
(* released peers_mutex_, before the handler builds its response.      *)
(* ------------------------------------------------------------------ *)
sendOthers == <<now, histVars, loopVars, wire, sideVars, asked, peers_mutex_, raced, crashed>>

\* processMessage from its lock_guard to the call of the response callback:
\* the message is counted and parsed, the registry is called, the response is
\* built
SendEnter(h) ==
  /\ pc[h] = "idle"
  /\ stats_mutex_ = NoThread
  /\ peers_mutex_ = NoThread
  /\ handler.messages_processed_ < MaxConcMessages
  /\ \E data \in ConcFrames, peer_address \in ConcIdentities :
       \E r \in processMessage(peers, stats, handler, now, data, peer_address) :
         /\ stats_mutex_' = h
         /\ peers' = r.peers
         /\ stats' = r.stats
         /\ handler' = [handler EXCEPT !.messages_processed_ = @ + 1]
         /\ msg' = [msg EXCEPT ![h] = [data |-> data, peer_address |-> peer_address,
                                       response |-> r.sent, handler |-> r.handler,
                                       ret |-> r.ret]]
         /\ pc' = [pc EXCEPT ![h] = "response_callback"]
  /\ UNCHANGED <<sent, last, sendOthers>>

\* the callback: send(socket_fd, response.data(), response.size(), 0)
SendResponse(h) ==
  /\ pc[h] = "response_callback"
  /\ sent' = msg[h].response
  /\ pc' = [pc EXCEPT ![h] = "return"]
  /\ UNCHANGED <<peers, stats, last, handler, msg, stats_mutex_, sendOthers>>

\* the handler returns, processMessage counts what it did and returns, and
\* its lock_guard releases stats_mutex_
SendReturn(h) ==
  /\ pc[h] = "return"
  /\ handler' = msg[h].handler
  /\ last' = Returned(msg[h].ret, <<>>, 0)
  /\ msg' = [msg EXCEPT ![h] = NoMessage]
  /\ stats_mutex_' = NoThread
  /\ pc' = [pc EXCEPT ![h] = "idle"]
  /\ UNCHANGED <<peers, stats, sent, sendOthers>>

SendTick ==
  /\ Advance
  /\ UNCHANGED <<histVars, loopVars, wire, sideVars, asked, dispVars, threadVars>>

NextSend ==
  \/ \E h \in Handlers : SendEnter(h) \/ SendResponse(h) \/ SendReturn(h)
  \/ SendTick

SpecSend == Init /\ [][NextSend]_vars

\* C28: no thread sends a response frame on a socket while it holds the
\* registry's mutex or the dispatcher's stats mutex.
NoSendUnderMutex ==
  \A h \in Handlers :
    pc[h] = "response_callback" => (stats_mutex_ # h /\ peers_mutex_ # h)

(* ------------------------------------------------------------------ *)
(* getPeersForDiscovery step by step, next to a thread that registers, *)
(* unregisters, touches and reaps. getPeersForDiscovery takes          *)
(* peers_mutex_ on its first line and holds it to its return; so do    *)
(* the other four, each for its whole call.                            *)
(* ------------------------------------------------------------------ *)
Discoverer == "connection1"
Mutator == "connection2"

\* a discovery that does not take the mutex
DiscoveryNoLock(th) == NoThread

\* std::lock_guard<std::mutex> lock(peers_mutex_) in getPeersForDiscovery:
\* the holder of the mutex once thread th has passed it
DiscoveryLock(th) == th

\* the calls the other thread makes
Mutations ==
  {[op |-> "registerPeer", onion_address |-> AddrA],
   [op |-> "registerPeer", onion_address |-> AddrB],
   [op |-> "unregisterPeer", onion_address |-> AddrA],
   [op |-> "updatePeerActivity", onion_address |-> AddrA],
   [op |-> "cleanupInactivePeers", onion_address |-> NoAddress]}

\* the requesters and the max_peers of the discoveries
AtomRequesters == {AddrA, AddrSocket}
AtomMaxResults == {1, 20}

atomOthers == <<histVars, dispVars, raced, stats_mutex_, crashed, loopVars, wire,
                crowd, picked, conn, life>>

\* getPeersForDiscovery is called and takes the mutex
AtomLock ==
  /\ pc[Discoverer] = "idle"
  /\ peers_mutex_ = NoThread
  /\ stats.requests_served < MaxServed
  /\ \E a \in AtomRequesters, m \in AtomMaxResults :
       asked' = Request(a, m, 0, isRateLimited(peers, now, a).ret)
  /\ snap' = [peers |-> peers, stats |-> stats]
  /\ peers_mutex_' = DiscoveryLock(Discoverer)
  /\ pc' = [pc EXCEPT ![Discoverer] = "isRateLimited"]
  /\ UNCHANGED <<regVars, msg, atomOthers>>

\* "Check rate limiting": a limited requester gets the empty list, and the
\* lock_guard releases the mutex
AtomRateCheck ==
  /\ pc[Discoverer] = "isRateLimited"
  /\ LET r == isRateLimited(peers, now, asked.requesting_peer)
     IN  /\ peers' = r.peers
         /\ IF r.ret
              THEN /\ last' = Returned(FALSE, <<>>, 0)
                   /\ peers_mutex_' = NoThread
                   /\ pc' = [pc EXCEPT ![Discoverer] = "idle"]
                   /\ asked' = NoRequest
                   /\ snap' = NoSnapshot
              ELSE /\ pc' = [pc EXCEPT ![Discoverer] = "request_count"]
                   /\ UNCHANGED <<last, peers_mutex_, asked, snap>>
  /\ UNCHANGED <<stats, now, msg, atomOthers>>

\* "Update request count for rate limiting"
AtomCount ==
  /\ pc[Discoverer] = "request_count"
  /\ peers' = IF asked.requesting_peer \in DOMAIN peers
                THEN [peers EXCEPT ![asked.requesting_peer].request_count = @ + 1]
                ELSE peers
  /\ pc' = [pc EXCEPT ![Discoverer] = "eligible_peers"]
  /\ UNCHANGED <<stats, now, last, asked, snap, msg, peers_mutex_, atomOthers>>

\* "Collect eligible peers", the two statistics, "Return random subset", and
\* the lock_guard releases the mutex
AtomCollect ==
  /\ pc[Discoverer] = "eligible_peers"
  /\ LET eligible == {a \in DOMAIN peers :
                        Eligible(peers[a], a, now, asked.requesting_peer,
                                 asked.required_capabilities)}
     IN  /\ stats' = [stats EXCEPT !.active_peers = Cardinality(eligible),
                                   !.requests_served = @ + 1]
         /\ \E order \in Orderings(eligible) :
              \E r \in getRandomSubset([i \in DOMAIN order |-> peers[order[i]]],
                                       asked.max_count) :
                last' = Returned(FALSE, r, 0)
  /\ peers_mutex_' = NoThread
  /\ pc' = [pc EXCEPT ![Discoverer] = "idle"]
  /\ asked' = NoRequest
  /\ snap' = NoSnapshot
  /\ UNCHANGED <<peers, now, msg, atomOthers>>

\* the other thread calls the registry and comes to the call's lock_guard
MutatorCalls ==
  /\ pc[Mutator] = "idle"
  /\ \E mutation \in Mutations :
       msg' = [msg EXCEPT ![Mutator] = mutation]
  /\ pc' = [pc EXCEPT ![Mutator] = "lock_guard"]
  /\ UNCHANGED <<regVars, asked, snap, peers_mutex_, atomOthers>>

\* the other thread's call gets the mutex, runs and returns
MutatorRuns ==
  /\ pc[Mutator] = "lock_guard"
  /\ peers_mutex_ = NoThread
  /\ LET mutation == msg[Mutator]
     IN  /\ mutation.op = "registerPeer" => RegisterCall(mutation.onion_address, 9000, 1)
         /\ mutation.op = "unregisterPeer" => UnregisterCall(mutation.onion_address)
         /\ mutation.op = "updatePeerActivity" => TouchCall(mutation.onion_address)
         /\ mutation.op = "cleanupInactivePeers" => ReapCall(ReapMaxAge)
  /\ msg' = [msg EXCEPT ![Mutator] = NoMessage]
  /\ pc' = [pc EXCEPT ![Mutator] = "idle"]
  /\ UNCHANGED <<asked, snap, peers_mutex_, atomOthers>>

\* time passes between the calls of the discovering thread
AtomTick ==
  /\ pc[Discoverer] = "idle"
  /\ Advance
  /\ UNCHANGED <<asked, snap, msg, pc, peers_mutex_, atomOthers>>

NextAtom ==
  \/ AtomLock \/ AtomRateCheck \/ AtomCount \/ AtomCollect
  \/ MutatorCalls \/ MutatorRuns
  \/ AtomTick

SpecAtom == Init /\ [][NextAtom]_vars

\* C29: what a discovery returns, and the registry and statistics it leaves,
\* are what getPeersForDiscovery computes in one piece on the registry as it
\* stood when the discovery took the mutex: no register, unregister, touch or
\* reap of another thread takes effect between its rate check, its count of
\* the request and its collection of the candidates.
DiscoveryOnOneRegistry ==
  [][(pc[Discoverer] # "idle" /\ pc'[Discoverer] = "idle")
       => \E r \in getPeersForDiscovery(snap.peers, snap.stats, now,
                                        asked.requesting_peer, asked.max_count,
                                        asked.required_capabilities) :
            /\ last'.list = r.ret
            /\ peers' = r.peers
            /\ stats' = r.stats]_vars

\* a discovery is between its rate check and its collection while the other
\* thread waits at the mutex with an unregistration of a registered peer
MutationWaitsForDiscovery ==
  /\ pc[Discoverer] = "eligible_peers"
  /\ pc[Mutator] = "lock_guard"
  /\ msg[Mutator].op = "unregisterPeer"
  /\ msg[Mutator].onion_address \in DOMAIN peers
  /\ peers_mutex_ = Discoverer

(* ------------------------------------------------------------------ *)
(* The dispatcher's messages next to the reaps of the cleanup thread   *)
(* and the reads of the statistics.                                    *)
(* ------------------------------------------------------------------ *)
\* one connection: a request of each type, an unsupported type or a bad frame
CountedRequest ==
  /\ handler.messages_processed_ < MaxMessages
  /\ \E data \in Frames, a \in Requesters :
       /\ ProcessCall(data, a)
       /\ received' = [data |-> data, peer_address |-> a]
  /\ UNCHANGED <<loopVars, wire, sideVars, attempted, served, asked, threadVars>>

NextCounters == CountedRequest \/ CleanupInactivePeers \/ GetStats \/ DispatchTick

SpecCounters == Init /\ [][NextCounters]_vars

\* C31: no step, be it a message, a reap, a read of the statistics or the
\* passing of time, makes any of the counters smaller: the registry's
\* registrations_processed and requests_served, and the dispatcher's six.
CountersNeverDecrease ==
  [][/\ stats'.registrations_processed >= stats.registrations_processed
     /\ stats'.requests_served >= stats.requests_served
     /\ handler'.messages_processed_ >= handler.messages_processed_
     /\ handler'.invalid_messages_ >= handler.invalid_messages_
     /\ handler'.rate_limited_requests_ >= handler.rate_limited_requests_
     /\ handler'.peer_registrations_ >= handler.peer_registrations_
     /\ handler'.peer_discoveries_ >= handler.peer_discoveries_
     /\ handler'.ping_requests_ >= handler.ping_requests_]_vars

\* a reap has removed a record after discoveries were served and messages
\* refused, and the counters still show them
CountersKeptAcrossReap ==
  /\ last.count > 0
  /\ stats.requests_served > 0
  /\ handler.peer_discoveries_ > 0
  /\ handler.invalid_messages_ > 0

\* C32: in every reachable state every record of the registry has
\* registered_at <= last_seen, whatever registrations, re-registrations,
\* touches, discoveries, rate checks and reaps came before.
RegisteredBeforeSeen ==
  \A a \in DOMAIN peers : peers[a].registered_at <= peers[a].last_seen

\* a record registered at the start has been seen again later, next to one
\* registered only then
SeenAfterRegistered ==
  \E a, b \in DOMAIN peers :
    /\ peers[a].registered_at < peers[a].last_seen
    /\ peers[b].registered_at = peers[b].last_seen
    /\ peers[a].registered_at < peers[b].registered_at


\* C33: a rate check of an address that is not in the registry answers false
\* and changes nothing; of a known address last seen RateWindow seconds ago
\* or more it sets request_count to 0, changes nothing else and answers
\* false; otherwise it answers true exactly when request_count has reached
\* rate_limit_per_minute_, and changes nothing.
RateCheckAnswers ==
  [][\A a \in Requesters :
       RateCheckCall(a) =>
         IF a \notin DOMAIN peers
           THEN last'.ok = FALSE /\ peers' = peers
         ELSE IF now - peers[a].last_seen >= 60
           THEN /\ last'.ok = FALSE
                /\ DOMAIN peers' = DOMAIN peers
                /\ peers'[a].request_count = 0
                /\ peers'[a] = [peers[a] EXCEPT !.request_count = 0]
                /\ \A b \in DOMAIN peers \ {a} : peers'[b] = peers[b]
         ELSE /\ last'.ok = (peers[a].request_count >= rate_limit_per_minute_)
              /\ peers' = peers]_vars

\* a rate check has just refused a record that is at its limit inside its
\* window, next to a record that is below the limit
RateCheckRefused ==
  /\ last = Returned(TRUE, <<>>, 0)
  /\ asked = NoRequest
  /\ \E a, b \in DOMAIN peers :
       /\ peers[a].request_count >= rate_limit_per_minute_
       /\ now - peers[a].last_seen < 60
       /\ peers[b].request_count < rate_limit_per_minute_


(* ------------------------------------------------------------------ *)
(* A trickle of requests: the clock moves in steps shorter than the    *)
(* rate window, and an identity sends at most one discovery between    *)
(* two steps, so that no RateWindow seconds hold more than             *)
(* rate_limit_per_minute_ of its discoveries. The reaper runs when it  *)
(* likes.                                                              *)
(* ------------------------------------------------------------------ *)
\* seconds between two readings of the clock
TrickleStep == 40
\* the clock steps of one run
MaxTrickleSteps == 5

\* a message; served counts the discoveries an identity has sent at this
\* instant, answered or refused
TrickleMessage ==
  /\ handler.messages_processed_ < MaxMessages
  /\ \E data \in Frames, a \in Requesters :
       /\ data.type = PEER_DISCOVERY => served[a] = 0
       /\ ProcessCall(data, a)
       /\ received' = [data |-> data, peer_address |-> a]
       /\ served' = IF data.type = PEER_DISCOVERY
                      THEN [served EXCEPT ![a] = @ + 1]
                      ELSE served
  /\ UNCHANGED <<loopVars, wire, sideVars, attempted, asked, threadVars>>

TrickleTick ==
  /\ now < StartTime + TrickleStep * MaxTrickleSteps
  /\ now' = now + TrickleStep
  /\ served' = NoneServed
  /\ UNCHANGED <<peers, stats, last, loopVars, wire, sideVars, attempted,
                 received, asked, dispVars, threadVars>>

NextTrickle == TrickleMessage \/ CleanupInactivePeers \/ TrickleTick

SpecTrickle == Init /\ [][NextTrickle]_vars

\* C34: a registered peer whose discoveries are more than half a rate window
\* apart, so that no RateWindow seconds hold more than
\* rate_limit_per_minute_ of them, never has a discovery answered "Rate limit
\* exceeded", however long it goes on.
TrickleNeverLimited ==
  [][\A a \in Requesters :
       (/\ Dispatched
        /\ received'.peer_address = a
        /\ received'.data.type = PEER_DISCOVERY
        /\ a \in DOMAIN peers
        /\ served'[a] <= 1
        /\ 2 * TrickleStep > RateWindow
        /\ rate_limit_per_minute_ >= 2)
       => ErrorCode(sent'[1]) # 2]_vars


\* C35: a discovery, a touch, a rate check and a reading of the statistics
\* leave the set of registered addresses as it was, also when they name an
\* address that is not registered; a step that adds an address is a register
\* call that returned true and adds that one address, and a step that removes
\* addresses is an unregister or a reap.
OnlyRegisterAddsOnlyUnregisterAndReapRemove ==
  [][/\ (\/ asked' # NoRequest
         \/ \E a \in Requesters : TouchCall(a) \/ RateCheckCall(a)
         \/ StatsCall)
        => DOMAIN peers' = DOMAIN peers
     /\ DOMAIN peers' \ DOMAIN peers # {}
        => \E reg \in Registrations :
             /\ RegisterCall(reg[1], reg[2], reg[3])
             /\ last'.ok
             /\ DOMAIN peers' = DOMAIN peers \cup {reg[1]}
     /\ DOMAIN peers \ DOMAIN peers' # {}
        => \/ \E a \in Requesters :
                UnregisterCall(a) /\ DOMAIN peers' = DOMAIN peers \ {a}
           \/ \E max_age_seconds \in MaxAges : ReapCall(max_age_seconds)]_vars

\* a discovery asked by an address that is not registered has been answered
\* with a record, and the address is still not registered
StrangerServedNotAdded ==
  /\ asked # NoRequest
  /\ asked.requesting_peer \notin DOMAIN peers
  /\ Len(last.list) >= 1


\* C36: in every state every record's request_count is at most
\* rate_limit_per_minute_.
RequestCountWithinLimit ==
  \A a \in DOMAIN peers : peers[a].request_count <= rate_limit_per_minute_

\* a discovery of a record that stands at the limit has just been refused,
\* and the record still stands at the limit
RefusedAtTheLimit ==
  /\ asked # NoRequest
  /\ asked.limited
  /\ asked.requesting_peer \in DOMAIN peers
  /\ peers[asked.requesting_peer].request_count = rate_limit_per_minute_
  /\ last.list = <<>>


\* the requests a dispatcher has counted in one of its five outcome classes
Classes(H) ==
  H.invalid_messages_ + H.rate_limited_requests_ + H.peer_registrations_
    + H.peer_discoveries_ + H.ping_requests_

\* C37: every call of processMessage adds one to messages_processed_ and one
\* to exactly one of invalid_messages_, rate_limited_requests_,
\* peer_registrations_, peer_discoveries_ and ping_requests_, except an
\* UNREGISTER answered with success, which adds to none of the five; so the
\* total is the sum of the five and the successful UNREGISTERs.
EachRequestInOneClass ==
  [][now' = now
       => /\ handler'.messages_processed_ = handler.messages_processed_ + 1
          /\ Classes(handler')
                = Classes(handler)
                    + (IF /\ last'.ok
                          /\ received'.data.type = PEER_UNREGISTER
                          /\ sent'[1].type = HANDSHAKE_RESPONSE
                         THEN 0 ELSE 1)
          /\ handler'.invalid_messages_ >= handler.invalid_messages_
          /\ handler'.rate_limited_requests_ >= handler.rate_limited_requests_
          /\ handler'.peer_registrations_ >= handler.peer_registrations_
          /\ handler'.peer_discoveries_ >= handler.peer_discoveries_
          /\ handler'.ping_requests_ >= handler.ping_requests_]_vars

\* the dispatcher has answered one UNREGISTER with success, which no class
\* holds, and has counted a registration, a discovery and an invalid request
OneUnregisterOutsideTheClasses ==
  /\ handler.messages_processed_ = Classes(handler) + 1
  /\ handler.peer_registrations_ > 0
  /\ handler.invalid_messages_ > 0
  /\ handler.peer_discoveries_ > 0


(* ------------------------------------------------------------------ *)
(* The two mutexes, one lock_guard per step: a thread first stands at  *)
(* a lock_guard, asking for its mutex, and passes it when the mutex is *)
(* free. The connection threads run processMessage, the cleanup thread *)
(* cleanupInactivePeers, the main thread SeedServer::getStats.         *)
(* ------------------------------------------------------------------ *)
NoMutex == "no mutex"

\* a rate check that locks peers_mutex_ itself
isRateLimitedLocking(caller) == "peers_mutex_"

\* isRateLimited: "This is called with peers_mutex_ already locked"; the
\* mutex it asks for on behalf of its caller
isRateLimitedLock(caller) == NoMutex

\* the PeerManager call a handler makes for a message type
RegistryCall(type) ==
  IF type = PEER_REGISTER THEN "registerPeer"
  ELSE IF type = PEER_DISCOVERY THEN "getPeersForDiscovery"
  ELSE IF type = PEER_UNREGISTER THEN "unregisterPeer"
  ELSE "handler"

RegistryCalls == {"registerPeer", "getPeersForDiscovery", "unregisterPeer"}

\* the mutex a thread is asking for where it stands
Wants(th) ==
  IF pc[th] \in {"processMessage", "GCTYHandler::getStats"} THEN "stats_mutex_"
  ELSE IF pc[th] \in RegistryCalls
                      \cup {"updatePeerActivity", "cleanupInactivePeers",
                            "PeerManager::getStats"}
    THEN "peers_mutex_"
  ELSE IF pc[th] = "registry" /\ msg[th].data.type = PEER_DISCOVERY
    THEN isRateLimitedLock(th)
  ELSE NoMutex

Holder(mutex) ==
  IF mutex = "stats_mutex_" THEN stats_mutex_
  ELSE IF mutex = "peers_mutex_" THEN peers_mutex_
  ELSE NoThread

\* the frames of the connections: one for each handler and one that does
\* not parse
LockFrames ==
  {createMessage(PEER_REGISTER, PeerRegisterRequest(AddrA, 9000, 1)),
   createMessage(PEER_DISCOVERY, PeerDiscoveryRequest(20, 0)),
   createMessage(PEER_UNREGISTER, <<>>),
   createMessage(PING, <<>>),
   [createMessage(PING, <<>>) EXCEPT !.magic = MAGIC_BYTES - 1]}

\* a connection's bytes have arrived and its thread calls processMessage
LockCall(h) ==
  /\ pc[h] = "idle"
  /\ handler.messages_processed_ < MaxConcMessages
  /\ \E data \in LockFrames, peer_address \in ConcIdentities :
       msg' = [msg EXCEPT ![h] = [data |-> data, peer_address |-> peer_address]]
  /\ pc' = [pc EXCEPT ![h] = "processMessage"]
  /\ UNCHANGED <<regVars, histVars, loopVars, wire, sideVars, asked, dispVars,
                 raced, stats_mutex_, peers_mutex_, crashed>>

\* processMessage passes its lock_guard, counts the message and parses it
LockStats(h) ==
  /\ pc[h] = "processMessage"
  /\ stats_mutex_ = NoThread
  /\ LET H1 == [handler EXCEPT !.messages_processed_ = @ + 1]
     IN  IF ~parseMessage(msg[h].data).ok
           THEN /\ handler' = [H1 EXCEPT !.invalid_messages_ = @ + 1]
                /\ Return(h, <<ErrorFrame(1, "Invalid GCTY message format")>>, FALSE)
           ELSE /\ handler' = H1
                /\ stats_mutex_' = h
                /\ pc' = [pc EXCEPT ![h] = "isRateLimited"]
                /\ UNCHANGED <<sent, last, msg, raced>>
  /\ UNCHANGED <<peers, stats, now, histVars, loopVars, wire, sideVars, asked,
                 peers_mutex_, crashed>>

\* "Check rate limiting": isRateLimited, which takes no mutex
LockRateCheck(h) ==
  /\ pc[h] = "isRateLimited"
  /\ LET r == isRateLimited(peers, now, msg[h].peer_address)
     IN  /\ peers' = r.peers
         /\ IF r.ret
              THEN /\ handler' = [handler EXCEPT !.rate_limited_requests_ = @ + 1]
                   /\ Return(h, <<ErrorFrame(2, "Rate limit exceeded")>>, FALSE)
              ELSE /\ pc' = [pc EXCEPT ![h] = "updatePeerActivity"]
                   /\ UNCHANGED <<handler, sent, last, msg, raced, stats_mutex_>>
  /\ UNCHANGED <<stats, now, histVars, loopVars, wire, sideVars, asked,
                 peers_mutex_, crashed>>

\* updatePeerActivity locks, stamps and unlocks; the switch then picks the
\* handler
LockTouch(h) ==
  /\ pc[h] = "updatePeerActivity"
  /\ peers_mutex_ = NoThread
  /\ peers' = updatePeerActivity(peers, now, msg[h].peer_address)
  /\ pc' = [pc EXCEPT ![h] = RegistryCall(parseMessage(msg[h].data).type)]
  /\ UNCHANGED <<stats, now, last, histVars, loopVars, wire, sideVars, asked,
                 dispVars, msg, raced, stats_mutex_, peers_mutex_, crashed>>

\* a handler's PeerManager call passes its lock_guard
LockRegistry(h) ==
  /\ pc[h] \in RegistryCalls
  /\ peers_mutex_ = NoThread
  /\ peers_mutex_' = h
  /\ pc' = [pc EXCEPT ![h] = "registry"]
  /\ UNCHANGED <<regVars, histVars, loopVars, wire, sideVars, asked, dispVars,
                 msg, raced, stats_mutex_, crashed>>

\* the PeerManager call runs (a discovery calls isRateLimited on its way) and
\* returns, the handler answers and processMessage returns
LockRegistryReturn(h) ==
  /\ pc[h] = "registry"
  /\ Holder(Wants(h)) = NoThread
  /\ LET parsed == parseMessage(msg[h].data)
     IN  \E r \in Dispatch(peers, stats, handler, now, parsed.type, parsed.payload,
                           msg[h].peer_address) :
           /\ peers' = r.peers
           /\ stats' = r.stats
           /\ handler' = r.handler
           /\ Return(h, r.sent, r.ret)
  /\ peers_mutex_' = NoThread
  /\ UNCHANGED <<now, histVars, loopVars, wire, sideVars, asked, crashed>>

\* handlePing and the default branch call no PeerManager function
LockHandler(h) ==
  /\ pc[h] = "handler"
  /\ LET parsed == parseMessage(msg[h].data)
     IN  \E r \in Dispatch(peers, stats, handler, now, parsed.type, parsed.payload,
                           msg[h].peer_address) :
           /\ peers' = r.peers
           /\ stats' = r.stats
           /\ handler' = r.handler
           /\ Return(h, r.sent, r.ret)
  /\ UNCHANGED <<now, histVars, loopVars, wire, sideVars, asked, peers_mutex_,
                 crashed>>

\* cleanupLoop wakes and calls cleanupInactivePeers
LockReapCall ==
  /\ pc[Reaper] = "sleep"
  /\ pc' = [pc EXCEPT ![Reaper] = "cleanupInactivePeers"]
  /\ UNCHANGED <<regVars, histVars, loopVars, wire, sideVars, asked, dispVars,
                 msg, raced, stats_mutex_, peers_mutex_, crashed>>

\* cleanupInactivePeers passes its lock_guard
LockReap ==
  /\ pc[Reaper] = "cleanupInactivePeers"
  /\ peers_mutex_ = NoThread
  /\ peers_mutex_' = Reaper
  /\ pc' = [pc EXCEPT ![Reaper] = "reaping"]
  /\ UNCHANGED <<regVars, histVars, loopVars, wire, sideVars, asked, dispVars,
                 msg, raced, stats_mutex_, crashed>>

\* the main thread calls SeedServer::getStats
LockStatsCall ==
  /\ pc[Main] = "idle"
  /\ pc' = [pc EXCEPT ![Main] = "PeerManager::getStats"]
  /\ UNCHANGED <<regVars, histVars, loopVars, wire, sideVars, asked, dispVars,
                 msg, raced, stats_mutex_, peers_mutex_, crashed>>

\* peer_manager_->getStats() locks, reads and unlocks
LockPeerStats ==
  /\ pc[Main] = "PeerManager::getStats"
  /\ peers_mutex_ = NoThread
  /\ StatsCall
  /\ pc' = [pc EXCEPT ![Main] = "GCTYHandler::getStats"]
  /\ UNCHANGED <<histVars, loopVars, wire, sideVars, asked, dispVars, msg, raced,
                 stats_mutex_, peers_mutex_, crashed>>

\* gcty_handler_->getStats() locks, reads and unlocks
LockHandlerStats ==
  /\ pc[Main] = "GCTYHandler::getStats"
  /\ stats_mutex_ = NoThread
  /\ pc' = [pc EXCEPT ![Main] = "idle"]
  /\ UNCHANGED <<regVars, histVars, loopVars, wire, sideVars, asked, dispVars,
                 msg, raced, stats_mutex_, peers_mutex_, crashed>>

NextLocks ==
  \/ \E h \in Handlers : LockCall(h)
  \/ \E h \in Handlers : LockStats(h)
  \/ \E h \in Handlers : LockRateCheck(h)
  \/ \E h \in Handlers : LockTouch(h)
  \/ \E h \in Handlers : LockRegistry(h)
  \/ \E h \in Handlers : LockRegistryReturn(h)
  \/ \E h \in Handlers : LockHandler(h)
  \/ LockReapCall
  \/ LockReap
  \/ ReapEnd
  \/ LockStatsCall
  \/ LockPeerStats
  \/ LockHandlerStats

SpecLocks == Init /\ [][NextLocks]_vars

\* the thread stands at a lock_guard whose mutex is held
Blocked(th) == Wants(th) # NoMutex /\ Holder(Wants(th)) # NoThread

\* the thread a blocked thread waits for
WaitsFor(th) == Holder(Wants(th))

\* no thread asks for stats_mutex_ while it holds peers_mutex_, none asks for
\* a mutex it holds, and the threads a blocked thread waits for, one behind
\* the other, end with a thread that is not blocked (with two mutexes the
\* second in line would otherwise close a circle)
LockDiscipline ==
  \A th \in Threads :
    /\ Wants(th) = "stats_mutex_" => peers_mutex_ # th
    /\ Wants(th) # NoMutex => Holder(Wants(th)) # th
    /\ Blocked(th)
         => \/ ~Blocked(WaitsFor(th))
            \/ ~Blocked(WaitsFor(WaitsFor(th)))

\* C38: the two mutexes never deadlock: a thread that comes to hold both
\* took stats_mutex_ first and peers_mutex_ second, no thread asks for
\* stats_mutex_ while it holds peers_mutex_, no thread asks for a mutex it
\* holds (the rate check inside a discovery asks for none), and no two
\* threads wait for each other.
NoDeadlockOnTheMutexes ==
  [][/\ LockDiscipline'
     /\ \A th \in Threads :
          /\ (stats_mutex_' = th /\ stats_mutex_ # th) => peers_mutex_ # th
          /\ (peers_mutex_' = th /\ stats_mutex_' = th)
               => (stats_mutex_ = th \/ peers_mutex_ = th)]_vars

\* a connection thread holds both mutexes inside a discovery while the other
\* connection thread waits for stats_mutex_ and the cleanup thread for
\* peers_mutex_
BothHeldOthersWaiting ==
  \E h \in Handlers :
    /\ stats_mutex_ = h
    /\ peers_mutex_ = h
    /\ pc[h] = "registry"
    /\ msg[h].data.type = PEER_DISCOVERY
    /\ \E g \in Handlers \ {h} : Blocked(g) /\ Wants(g) = "stats_mutex_"
    /\ Blocked(Reaper)
    /\ Blocked(Main)


(* ------------------------------------------------------------------ *)
(* Shutdown with connections under way: listenLoop detaches a thread   *)
(* for every connection it accepts and nobody joins it. stop() joins   *)
(* the server and cleanup threads and calls cleanup(), which stops the *)
(* listener and resets gcty_handler_ and peer_manager_; life.stop is   *)
(* "returned" once they are reset.                                     *)
(* ------------------------------------------------------------------ *)
\* the socket accept returns for a connection thread
SocketOf(h) == IF h = "connection1" THEN 5 ELSE 6

\* what the connection's recv leaves: nothing, a PING or a registration
ShutdownIncomings ==
  {Incoming(0, createMessage(0, <<>>)),
   Incoming(FrameSize(createMessage(PING, <<>>)), createMessage(PING, <<>>)),
   Incoming(FrameSize(createMessage(PEER_REGISTER, PeerRegisterRequest(AddrA, 9000, 1))),
            createMessage(PEER_REGISTER, PeerRegisterRequest(AddrA, 9000, 1)))}

\* the frames the connections of one run deliver
MaxShutdownMessages == 1

\* cleanup() has run gcty_handler_.reset() and peer_manager_.reset()
Destroyed == life.stop = "returned"

shutdownOthers == <<histVars, asked, wire, crowd, picked, conn, snap, loopVars>>

\* the blocked accept returns a client's socket, and listenLoop detaches a
\* thread that runs TorManager::handleConnection and SeedServer::handleConnection
\* up to its recv
Detach ==
  /\ ~crashed
  /\ life.listen_thread_ = "blocked"
  /\ \E h \in Handlers :
       /\ pc[h] = "idle"
       /\ pc' = [pc EXCEPT ![h] = "recv"]
       /\ msg' = [msg EXCEPT ![h] = [data |-> createMessage(0, <<>>),
                                     peer_address |-> getPeerAddress(SocketOf(h))]]
  /\ life' = [life EXCEPT !.listen_thread_ = "while", !.woken = FALSE]
  /\ UNCHANGED <<regVars, dispVars, raced, stats_mutex_, peers_mutex_, crashed,
                 shutdownOthers>>

\* recv returns in the detached thread: with nothing, and the thread closes
\* the socket and ends, or with a frame (one frame is in the dispatcher at a
\* time, and MaxShutdownMessages in a run)
Receive(h) ==
  /\ ~crashed
  /\ pc[h] = "recv"
  /\ \E incoming \in ShutdownIncomings :
       IF incoming.received <= 0
         THEN /\ pc' = [pc EXCEPT ![h] = "idle"]
              /\ msg' = [msg EXCEPT ![h] = NoMessage]
         ELSE /\ handler.messages_processed_ < MaxShutdownMessages
              /\ \A g \in Handlers : pc[g] # "processMessage"
              /\ pc' = [pc EXCEPT ![h] = "processMessage"]
              /\ msg' = [msg EXCEPT ![h].data = incoming.data]
  /\ UNCHANGED <<regVars, dispVars, raced, stats_mutex_, peers_mutex_, crashed,
                 life, shutdownOthers>>

\* gcty_handler_->processMessage(...) in the detached thread, the send and the
\* close. Once cleanup() has reset gcty_handler_ the call goes through a null
\* pointer to a destroyed object: the thread crashes the process, or it runs
\* on the memory the objects were in
Process(h) ==
  /\ ~crashed
  /\ pc[h] = "processMessage"
  /\ \/ /\ ProcessCall(msg[h].data, msg[h].peer_address)
        /\ pc' = [pc EXCEPT ![h] = "idle"]
        /\ msg' = [msg EXCEPT ![h] = NoMessage]
        /\ UNCHANGED crashed
     \/ /\ Destroyed
        /\ crashed' = TRUE
        /\ UNCHANGED <<regVars, dispVars, pc, msg>>
  /\ UNCHANGED <<raced, stats_mutex_, peers_mutex_, life, shutdownOthers>>

NextShutdown ==
  \/ ServerLoop
  \/ CleanupLoop
  \/ ListenLoop
  \/ Detach
  \/ \E h \in Handlers : Receive(h)
  \/ \E h \in Handlers : Process(h)
  \/ StopCalled
  \/ StopGoesOn

SpecShutdown == Init /\ [][NextShutdown]_vars

\* C39: once cleanup() has released the dispatcher and the registry, the
\* cleanup thread has ended and no connection thread the listener started is
\* still running, so that none can call processMessage on them.
NoThreadOutlivesComponents ==
  Destroyed
    => /\ life.cleanup_thread_ = "ended"
       /\ \A h \in Handlers : pc[h] = "idle"
       /\ ~crashed

====
